---- MODULE Spec2Model ----
(***************************************************************************)
(* everything-client: the three transport adapters (IPC, CLI, HTTP), their *)
(* connection lifecycle, the polling monitor (monitorFileChanges) and the  *)
(* change detector (detectChanges).                                        *)
(*                                                                         *)
(* Sources: src/packages/everything-client/src/adapters/ipc-adapter.ts     *)
(* (IPCAdapter, lines 74-509, and CLIAdapter, lines 557-942) and           *)
(* src/unnamed/part_001 (HTTPAdapter, lines 71-377).                       *)
(***************************************************************************)
EXTENDS Integers, Sequences, FiniteSets, TLC

(***************************************************************************)
(* Bounds of the model.                                                    *)
(***************************************************************************)
\* number of distinct fullPath values in the snapshots given to detectChanges
NumPaths == 3
\* longest snapshot given to detectChanges
MaxLen == 2
\* longest snapshot a search of the monitor returns
MonMaxLen == 1
\* most ticks of the HTTP subscriptions of an adapter in flight at once
\* (setInterval keeps firing while earlier searches are pending; the code
\* has no limit)
MaxInFlight == 2
\* the characters of a line of es.exe output
MaxLineLen == 3
\* the records of a response to a search
MaxRecords == 2
\* IPC: the matches beyond the window of visible results
MaxBeyond == 2
\* the largest attributes bitmask of a record
MaxAttributes == 7
\* raw timestamps: the steps of 10^9 ticks above the 1970 epoch
MaxTickHi == 1

\* the largest offset asked for
MaxOffset == 1
\* the length of the longest stdout of es.exe -get-result-count
MaxCountLen == 2
\* the largest result count the engine reports in a status
MaxTotal == 2

Paths == 1..NumPaths
\* dateModified.getTime() values: two distinct instants
Times == {100, 250}
\* the monitor's engine reports one file, at either instant, or nothing
MonPaths == {1}
Subs == {1, 2}
Phases == {"connect", "query", "rejected"}
Adapters == {"ipc", "cli", "http"}

(***************************************************************************)
(* Snapshots: lists of SearchResult, reduced to the two fields the change  *)
(* detector reads (fullPath, dateModified).                                *)
(***************************************************************************)
Results == [fullPath : Paths, dateModified : Times]

SeqsUpTo(S, n) == UNION {[1..k -> S] : k \in 0..n}

Snapshots == SeqsUpTo(Results, MaxLen)

MonSnapshots ==
    SeqsUpTo([fullPath : MonPaths, dateModified : Times], MonMaxLen)

(***************************************************************************)
(* A JavaScript Map<string, SearchResult>: a sequence of entries in        *)
(* insertion order; set() on a key already present replaces the value and  *)
(* keeps the key's position.                                               *)
(***************************************************************************)
MapHas(m, k) == \E i \in 1..Len(m) : m[i].key = k

MapGet(m, k) == m[CHOOSE i \in 1..Len(m) : m[i].key = k].val

MapSet(m, k, v) ==
    IF MapHas(m, k)
    THEN [i \in 1..Len(m) |->
            IF m[i].key = k THEN [key |-> k, val |-> v] ELSE m[i]]
    ELSE Append(m, [key |-> k, val |-> v])

RECURSIVE BuildPathMap(_, _)
\* for (const result of results) map.set(result.fullPath, result)
BuildPathMap(results, n) ==
    IF n = 0 THEN <<>>
    ELSE MapSet(BuildPathMap(results, n - 1), results[n].fullPath, results[n])

\* a plausible slip: the loop over the old paths is left out
DeletedLoopNone(oldPaths, newPaths, n) == <<>>

RECURSIVE DeletedLoop(_, _, _)
\* for (const [path] of oldPaths) if (!newPaths.has(path)) push deleted
DeletedLoop(oldPaths, newPaths, n) ==
    IF n = 0 THEN <<>>
    ELSE LET rest == DeletedLoop(oldPaths, newPaths, n - 1)
             path == oldPaths[n].key
         IN IF ~MapHas(newPaths, path)
            THEN Append(rest, [path |-> path, type |-> "deleted"])
            ELSE rest

RECURSIVE AddedModifiedLoopDateIdentity(_, _, _)
\* a plausible slip: the two Date objects are compared by identity (!==
\* without getTime()), so every path present in both snapshots is modified
AddedModifiedLoopDateIdentity(oldPaths, newPaths, n) ==
    IF n = 0 THEN <<>>
    ELSE LET rest == AddedModifiedLoopDateIdentity(oldPaths, newPaths, n - 1)
             path == newPaths[n].key
         IN IF ~MapHas(oldPaths, path)
            THEN Append(rest, [path |-> path, type |-> "added"])
            ELSE Append(rest, [path |-> path, type |-> "modified"])

RECURSIVE AddedModifiedLoop(_, _, _)
\* for (const [path, newResult] of newPaths) added / modified
AddedModifiedLoop(oldPaths, newPaths, n) ==
    IF n = 0 THEN <<>>
    ELSE LET rest == AddedModifiedLoop(oldPaths, newPaths, n - 1)
             path == newPaths[n].key
             newResult == newPaths[n].val
         IN IF ~MapHas(oldPaths, path)
            THEN Append(rest, [path |-> path, type |-> "added"])
            ELSE IF newResult.dateModified # MapGet(oldPaths, path).dateModified
                 THEN Append(rest, [path |-> path, type |-> "modified"])
                 ELSE rest

\* IPCAdapter.detectChanges
DetectChangesIPC(oldResults, newResults) ==
    LET oldPaths == BuildPathMap(oldResults, Len(oldResults))
        newPaths == BuildPathMap(newResults, Len(newResults))
    IN DeletedLoop(oldPaths, newPaths, Len(oldPaths))
       \o AddedModifiedLoop(oldPaths, newPaths, Len(newPaths))

\* a plausible slip: the CLI adapter compares the two Date objects by
\* identity
DetectChangesCLIDateIdentity(oldResults, newResults) ==
    LET oldPathMap == BuildPathMap(oldResults, Len(oldResults))
        newPathMap == BuildPathMap(newResults, Len(newResults))
    IN DeletedLoop(oldPathMap, newPathMap, Len(oldPathMap))
       \o AddedModifiedLoopDateIdentity(oldPathMap, newPathMap,
                                        Len(newPathMap))

\* CLIAdapter.detectChanges
DetectChangesCLI(oldResults, newResults) ==
    LET oldPathMap == BuildPathMap(oldResults, Len(oldResults))
        newPathMap == BuildPathMap(newResults, Len(newResults))
    IN DeletedLoop(oldPathMap, newPathMap, Len(oldPathMap))
       \o AddedModifiedLoop(oldPathMap, newPathMap, Len(newPathMap))

\* a plausible slip: the HTTP adapter looks for added and modified files
\* first
DetectChangesHTTPAddedFirst(oldResults, newResults) ==
    LET oldPathMap == BuildPathMap(oldResults, Len(oldResults))
        newPathMap == BuildPathMap(newResults, Len(newResults))
    IN AddedModifiedLoop(oldPathMap, newPathMap, Len(newPathMap))
       \o DeletedLoop(oldPathMap, newPathMap, Len(oldPathMap))

\* HTTPAdapter.detectChanges
DetectChangesHTTP(oldResults, newResults) ==
    LET oldPathMap == BuildPathMap(oldResults, Len(oldResults))
        newPathMap == BuildPathMap(newResults, Len(newResults))
    IN DeletedLoop(oldPathMap, newPathMap, Len(oldPathMap))
       \o AddedModifiedLoop(oldPathMap, newPathMap, Len(newPathMap))

\* this.detectChanges of an adapter of class a
DetectChanges(a, oldResults, newResults) ==
    CASE a = "ipc" -> DetectChangesIPC(oldResults, newResults)
      [] a = "cli" -> DetectChangesCLI(oldResults, newResults)
      [] a = "http" -> DetectChangesHTTP(oldResults, newResults)

(***************************************************************************)
(* JavaScript values, as the parsers of the three adapters see them.       *)
(* A string is a sequence of characters. A count of 100 ns ticks (a uint64 *)
(* of the native library, a decimal string of the HTTP server) does not    *)
(* fit a machine integer: it is kept as the two limbs hi * 10^9 + lo, and  *)
(* a Date as the two limbs hi * 10^5 + lo of its getTime().                *)
(***************************************************************************)
JSValue(t, h, n, s) == [t |-> t, h |-> h, n |-> n, s |-> s]

Undefined == JSValue("undefined", 0, 0, <<>>)

Null == JSValue("null", 0, 0, <<>>)

NaN == JSValue("NaN", 0, 0, <<>>)

Num(k) == JSValue("number", 0, k, <<>>)

Str(q) == JSValue("string", 0, 0, q)

Ticks(hi, lo) == JSValue("ticks", hi, lo, <<>>)

DateMs(hi, lo) == JSValue("date", hi, lo, <<>>)

\* the path separator "\\" of the template literals
Sep == "\\"

\* ToBoolean: what `x || d`, `x ? a : b` and `!x` test
Truthy(v) ==
    CASE v.t \in {"undefined", "null", "NaN"} -> FALSE
      [] v.t \in {"number", "boolean"} -> v.n # 0
      [] v.t = "string" -> v.s # <<>>
      [] OTHER -> TRUE

\* x || d
OrElse(v, d) == IF Truthy(v) THEN v ELSE d

\* `${x}`: the text a template literal renders for x
Template(v) ==
    CASE v.t = "string" -> v.s
      [] v.t = "undefined" -> <<"undefined">>
      [] v.t = "null" -> <<"null">>
      [] OTHER -> <<"?">>

DigitChars == <<"0", "1", "2", "3", "4", "5", "6", "7", "8", "9">>

IsDigit(c) == \E i \in 1..Len(DigitChars) : DigitChars[i] = c

DigitVal(c) == (CHOOSE i \in 1..Len(DigitChars) : DigitChars[i] = c) - 1

RECURSIVE DecimalValue(_)
\* the number a string of decimal digits denotes
DecimalValue(s) ==
    IF s = <<>> THEN 0
    ELSE DecimalValue(SubSeq(s, 1, Len(s) - 1)) * 10 + DigitVal(s[Len(s)])

\* Number(x)
ToNumber(v) ==
    CASE v.t = "number" -> v
      [] v.t = "null" -> Num(0)
      [] v.t = "string" ->
            IF \A i \in 1..Len(v.s) : IsDigit(v.s[i])
            THEN Num(DecimalValue(v.s))
            ELSE NaN
      [] OTHER -> NaN

\* (n & mask) !== 0 and !!(n & mask), for a mask of one bit
HasBit(n, mask) == (n \div mask) % 2 = 1

(***************************************************************************)
(* The canonical result and the three parsers. dateCreated and             *)
(* dateAccessed are computed from their own raw fields by the function     *)
(* that computes dateModified, and are left out.                           *)
(***************************************************************************)
SearchResult(name, path, fullPath, size, dateModified, attributes, isDirectory, isHidden, isSystem, isReadOnly) ==
    [name |-> name, path |-> path, fullPath |-> fullPath, size |-> size,
     dateModified |-> dateModified, attributes |-> attributes,
     isDirectory |-> isDirectory, isHidden |-> isHidden,
     isSystem |-> isSystem, isReadOnly |-> isReadOnly]

\* a plausible slip: the masks of isHidden and isSystem exchanged
FlagMaskSwapped(flag) ==
    CASE flag = "isReadOnly" -> 1
      [] flag = "isHidden" -> 4
      [] flag = "isSystem" -> 2

\* 0x1 FILE_ATTRIBUTE_READONLY, 0x2 FILE_ATTRIBUTE_HIDDEN,
\* 0x4 FILE_ATTRIBUTE_SYSTEM
FlagMask(flag) ==
    CASE flag = "isReadOnly" -> 1
      [] flag = "isHidden" -> 2
      [] flag = "isSystem" -> 4

\* const WINDOWS_EPOCH_OFFSET = 116444736000000000
WINDOWS_EPOCH_OFFSET == Ticks(116444736, 0)

\* IPCAdapter.fileTimeToDate: new Date((fileTime - WINDOWS_EPOCH_OFFSET) /
\* 10000), and new Date(0) for 0; new Date(x) drops the fraction of x
\* (towards zero). The subtraction is taken as exact.
FileTimeToDate(fileTime) ==
    IF fileTime.h = 0 /\ fileTime.n = 0
    THEN DateMs(0, 0)
    ELSE LET dh == fileTime.h - WINDOWS_EPOCH_OFFSET.h
             dn == fileTime.n - WINDOWS_EPOCH_OFFSET.n
         IN IF dh >= 0
            THEN DateMs(dh, dn \div 10000)
            ELSE DateMs(dh, (dn + 9999) \div 10000)

\* IPCAdapter.getResult, on what the native getters return for one index
IPCGetResult(native) ==
    SearchResult(
        native.fileName,
        native.path,
        IF Truthy(native.path)
        THEN Str(Template(native.path) \o <<Sep>> \o Template(native.fileName))
        ELSE native.fileName,
        native.size,
        FileTimeToDate(native.dateModified),
        native.attributes,
        native.isFolder,
        HasBit(native.attributes.n, FlagMask("isHidden")),
        HasBit(native.attributes.n, FlagMask("isSystem")),
        HasBit(native.attributes.n, FlagMask("isReadOnly")))

\* HTTPAdapter.parseSearchResults, parseDate: new Date() without a
\* timestamp, else new Date(Number(BigInt(timestamp) / BigInt(10000)))
HTTPParseDate(timestamp, now) ==
    IF ~Truthy(timestamp) THEN now
    ELSE DateMs(timestamp.h, timestamp.n \div 10000)

\* HTTPAdapter.parseSearchResults, the function mapped over data.results
HTTPParseItem(item, now) ==
    LET size == IF item.size = Str(<<>>) THEN Num(0) ELSE ToNumber(item.size)
        attributes == OrElse(item.attributes, Num(0))
    IN SearchResult(
        OrElse(item.name, Str(<<>>)),
        OrElse(item.path, Str(<<>>)),
        IF Truthy(item.path)
        THEN Str(Template(item.path) \o <<Sep>> \o Template(item.name))
        ELSE item.name,
        size,
        HTTPParseDate(item.date_modified, now),
        attributes,
        item.type = "folder",
        HasBit(attributes.n, FlagMask("isHidden")),
        HasBit(attributes.n, FlagMask("isSystem")),
        HasBit(attributes.n, FlagMask("isReadOnly")))

RECURSIVE TrimStart(_)
TrimStart(s) ==
    IF s # <<>> /\ s[1] = " " THEN TrimStart(SubSeq(s, 2, Len(s))) ELSE s

RECURSIVE TrimEnd(_)
TrimEnd(s) ==
    IF s # <<>> /\ s[Len(s)] = " " THEN TrimEnd(SubSeq(s, 1, Len(s) - 1))
    ELSE s

\* String.prototype.trim
Trim(s) == TrimEnd(TrimStart(s))

\* line.split(",")[0]
FirstValue(line) ==
    IF \E i \in 1..Len(line) : line[i] = ","
    THEN SubSeq(line, 1,
                (CHOOSE i \in 1..Len(line) :
                    /\ line[i] = ","
                    /\ \A j \in 1..(i - 1) : line[j] # ",") - 1)
    ELSE line

\* value.startsWith('"') && value.endsWith('"') ? value.substring(1,
\* value.length - 1) : value; substring(1, 0) of a lone quote is substring(0, 1)
Unquote(value) ==
    IF value # <<>> /\ value[1] = "\"" /\ value[Len(value)] = "\""
    THEN IF Len(value) = 1 THEN value
         ELSE SubSeq(value, 2, Len(value) - 1)
    ELSE value

\* fullPath.lastIndexOf("\\"), from 1, and 0 for the -1 of JavaScript
LastIndexOf(s, c) ==
    IF \E i \in 1..Len(s) : s[i] = c
    THEN CHOOSE i \in 1..Len(s) :
            /\ s[i] = c
            /\ \A j \in (i + 1)..Len(s) : s[j] # c
    ELSE 0

\* CLIAdapter.parseCSVResults, the body of the loop for one line: no result
\* for a line that is empty once trimmed
CLIParseLine(rawLine, now) ==
    LET line == Trim(rawLine)
        fullPath == Unquote(FirstValue(line))
        lastBackslashIndex == LastIndexOf(fullPath, Sep)
        fileName == IF lastBackslashIndex # 0
                    THEN SubSeq(fullPath, lastBackslashIndex + 1, Len(fullPath))
                    ELSE fullPath
        path == IF lastBackslashIndex # 0
                THEN SubSeq(fullPath, 1, lastBackslashIndex - 1)
                ELSE <<>>
        isDirectory == \/ (fullPath # <<>> /\ fullPath[Len(fullPath)] = Sep)
                       \/ fileName = <<>>
    IN IF line = <<>> THEN <<>>
       ELSE <<SearchResult(Str(fileName), Str(path), Str(fullPath), Num(0),
                           now, Num(0), isDirectory, FALSE, FALSE, FALSE)>>

RECURSIVE ParseCSVResults(_, _)
\* CLIAdapter.parseCSVResults on the lines of csvData.trim().split("\n")
ParseCSVResults(lines, now) ==
    IF lines = <<>> THEN <<>>
    ELSE CLIParseLine(lines[1], now)
         \o ParseCSVResults(SubSeq(lines, 2, Len(lines)), now)

\* HTTPAdapter.parseSearchResults: if (!Array.isArray(data.results)) return
\* []; a body is modelled by whether its results field is an array, and by
\* the items of that array
ParseSearchResults(data, now) ==
    IF ~data.isArray THEN <<>>
    ELSE [i \in 1..Len(data.results) |-> HTTPParseItem(data.results[i], now)]

(***************************************************************************)
(* What the transports can hand to the parsers.                            *)
(***************************************************************************)
\* raw timestamps: 0, and ticks from the 1970 epoch on
RawTicks ==
    {Ticks(0, 0)}
    \cup {Ticks(WINDOWS_EPOCH_OFFSET.h + d, n) :
             d \in 0..MaxTickHi, n \in {0, 9999, 10000, 25000}}

\* the readings of new Date() while a response is parsed
Clock == {DateMs(17, 0), DateMs(17, 1)}

\* one element of results in a body of the HTTP server; every field but
\* type can be absent
HTTPItems ==
    [type : {"folder", "file"},
     name : {Undefined, Str(<<>>), Str(<<"a">>)},
     path : {Undefined, Str(<<>>), Str(<<"p">>)},
     size : {Undefined, Str(<<>>), Str(<<"4", "2">>), Num(42)},
     date_modified : {Undefined} \cup RawTicks,
     attributes : {Undefined} \cup {Num(k) : k \in 0..MaxAttributes}]

\* what the getters of the native library return for one index; a string
\* getter returns null for an index that has no result
IPCNatives ==
    [fileName : {Null, Str(<<>>), Str(<<"a">>)},
     path : {Null, Str(<<>>), Str(<<"p">>)},
     size : {Num(0), Num(42)},
     dateModified : RawTicks,
     attributes : {Num(k) : k \in 0..MaxAttributes},
     isFolder : BOOLEAN]

CLIChars == {Sep, "a", "b", ",", "\"", " "}

\* one line of the output of es.exe -csv
CLILines == SeqsUpTo(CLIChars, MaxLineLen)

\* the records of the transport of adapter a
RawRecords(a) ==
    CASE a = "ipc" -> IPCNatives
      [] a = "http" -> HTTPItems
      [] a = "cli" -> CLILines

\* the canonical results the parser of adapter a makes of one record, with
\* the clock at t
ParseRecord(a, record, t) ==
    CASE a = "ipc" -> <<IPCGetResult(record)>>
      [] a = "http" -> <<HTTPParseItem(record, t)>>
      [] a = "cli" -> CLIParseLine(record, t)

\* sequences without repetition
DistinctSeqs(S, n) ==
    {q \in SeqsUpTo(S, n) :
        \A i, j \in 1..Len(q) : i # j => q[i] # q[j]}

\* the records of the responses to a search: the file a, in the folder p
\* or in none, its other fields fixed
SearchHTTPItems ==
    {item \in HTTPItems :
        /\ item.type = "file"
        /\ item.name = Str(<<"a">>)
        /\ item.path \in {Undefined, Str(<<"p">>)}
        /\ item.size = Num(42)
        /\ item.date_modified = WINDOWS_EPOCH_OFFSET
        /\ item.attributes = Num(0)}

SearchNatives ==
    {native \in IPCNatives :
        /\ native.fileName = Str(<<"a">>)
        /\ native.path \in {Str(<<>>), Str(<<"p">>)}
        /\ native.size = Num(42)
        /\ native.dateModified = WINDOWS_EPOCH_OFFSET
        /\ native.attributes = Num(0)
        /\ ~native.isFolder}

\* plain full paths of two characters at most, and the quoted names a,a
\* and a,b
SearchLines ==
    {line \in CLILines :
        Len(line) <= 2 /\ \A i \in 1..Len(line) : line[i] \in {Sep, "a"}}
    \cup {<<"\"", "a", ",", c, "\"">> : c \in {"a", "b"}}

\* what the native getters return for an index outside the window of
\* visible results (Everything SDK: a null string, 0, and
\* INVALID_FILE_ATTRIBUTES, of which the low bits are kept)
InvalidIndex ==
    [fileName |-> Null, path |-> Null, size |-> Num(0),
     dateModified |-> Ticks(0, 0), attributes |-> Num(7),
     isFolder |-> FALSE]

\* the responses of the transport of adapter a to a search, each file once.
\* HTTP: a body whose results is not an array, or an array of items. CLI:
\* the lines of stdout. IPC: the window of visible results and
\* Everything_GetTotResults(), the number of all matches.
SearchResponses(a) ==
    CASE a = "http" ->
            {[wellFormed |-> FALSE, records |-> <<>>, tot |-> 0]}
            \cup {[wellFormed |-> TRUE, records |-> q, tot |-> Len(q)] :
                     q \in DistinctSeqs(SearchHTTPItems, MaxRecords)}
      [] a = "cli" ->
            {[wellFormed |-> TRUE, records |-> q, tot |-> Len(q)] :
                q \in DistinctSeqs(SearchLines, MaxRecords)}
      [] a = "ipc" ->
            UNION {{[wellFormed |-> TRUE, records |-> q, tot |-> t] :
                       t \in Len(q)..(Len(q) + MaxBeyond)} :
                   q \in DistinctSeqs(SearchNatives, MaxRecords)}

\* IPCAdapter.search: for (let i = 0; i < totalResults; i++) results.push(
\* await this.getResult(i))
IPCReadResults(window, totalResults) ==
    [i \in 1..totalResults |->
        IPCGetResult(IF i <= Len(window) THEN window[i] ELSE InvalidIndex)]

\* the list search makes of a response
ParseResponse(a, resp, t) ==
    CASE a = "http" ->
            ParseSearchResults([isArray |-> resp.wellFormed,
                                results |-> resp.records], t)
      [] a = "cli" -> ParseCSVResults(resp.records, t)
      [] a = "ipc" -> IPCReadResults(resp.records, resp.tot)

(***************************************************************************)
(* SearchOptions, and the request each adapter makes of them: the setter   *)
(* calls of IPCAdapter.search, the args of CLIAdapter.search and the       *)
(* params of HTTPAdapter.search, each a list of entries key, val.          *)
(***************************************************************************)
Bool(b) == JSValue("boolean", 0, IF b THEN 1 ELSE 0, <<>>)

\* the completion of an expression that throws
Thrown == JSValue("throw", 0, 0, <<>>)

SortBys == {"name", "path", "size", "date", "run-count"}

SortOrders == {"asc", "desc"}

\* maxResults: absent, or a count up to the size of the largest window
MaxResultsValues == {Undefined} \cup {Num(k) : k \in 0..MaxRecords}

OffsetValues == {Undefined} \cup {Num(k) : k \in 0..MaxOffset}

\* SearchOptions; an absent toggle is falsy like false, an absent sortBy or
\* sortOrder is "undefined"
SearchOptions ==
    [matchCase : BOOLEAN, matchPath : BOOLEAN, matchWholeWord : BOOLEAN,
     regex : BOOLEAN, maxResults : MaxResultsValues, offset : OffsetValues,
     sortBy : SortBys \cup {"undefined"},
     sortOrder : SortOrders \cup {"undefined"},
     includeHidden : BOOLEAN, includeSystem : BOOLEAN,
     includeDirectories : BOOLEAN, includeFiles : BOOLEAN]

\* options = {}
NoOptions ==
    [matchCase |-> FALSE, matchPath |-> FALSE, matchWholeWord |-> FALSE,
     regex |-> FALSE, maxResults |-> Undefined, offset |-> Undefined,
     sortBy |-> "undefined", sortOrder |-> "undefined",
     includeHidden |-> FALSE, includeSystem |-> FALSE,
     includeDirectories |-> FALSE, includeFiles |-> FALSE]

\* the options of which only maxResults is given
WindowOptions == {[NoOptions EXCEPT !.maxResults = m] : m \in MaxResultsValues}

RECURSIVE NumberToString(_)
\* the decimal digits of a natural number
NumberToString(k) ==
    IF k < 10 THEN <<DigitChars[k + 1]>>
    ELSE NumberToString(k \div 10) \o <<DigitChars[(k % 10) + 1]>>

\* x.toString(): a TypeError for undefined and null
ToStringOf(v) ==
    CASE v.t = "number" -> Str(NumberToString(v.n))
      [] v.t = "string" -> v
      [] OTHER -> Thrown

Entry(key, val) == [key |-> key, val |-> val]

\* args.push(token)
Arg(token) == Entry("arg", Str(<<token>>))

\* URLSearchParams.set: the value of the first entry of the key is replaced
ParamsSet(params, key, val) ==
    [i \in 1..Len(params) |->
        IF params[i].key = key THEN Entry(key, val) ELSE params[i]]

\* the value of the entry of a key
Lookup(request, key) ==
    request[CHOOSE i \in 1..Len(request) : request[i].key = key].val

\* sortMap[`${sortBy}-${sortOrder}`]: undefined for a key it does not have
SortMap(sortBy, sortOrder) ==
    CASE sortBy = "name" /\ sortOrder = "asc" -> Num(1)
      [] sortBy = "name" /\ sortOrder = "desc" -> Num(2)
      [] sortBy = "path" /\ sortOrder = "asc" -> Num(3)
      [] sortBy = "path" /\ sortOrder = "desc" -> Num(4)
      [] sortBy = "size" /\ sortOrder = "asc" -> Num(5)
      [] sortBy = "size" /\ sortOrder = "desc" -> Num(6)
      [] sortBy = "date" /\ sortOrder = "asc" -> Num(13)
      [] sortBy = "date" /\ sortOrder = "desc" -> Num(14)
      [] sortBy = "run-count" /\ sortOrder = "asc" -> Num(19)
      [] sortBy = "run-count" /\ sortOrder = "desc" -> Num(20)
      [] OTHER -> Undefined

\* if (options.sortBy) { ... if (sortValue) Everything_SetSort(sortValue) }
IPCSortCalls(sortBy, sortOrder) ==
    IF sortBy = "undefined" THEN <<>>
    ELSE LET sortValue ==
                 SortMap(sortBy,
                         IF sortOrder = "undefined" THEN "asc" ELSE sortOrder)
         IN IF Truthy(sortValue)
            THEN <<Entry("Everything_SetSort", sortValue)>>
            ELSE <<>>

\* IPCAdapter.search: the setters called before Everything_QueryW
IPCSearchRequest(options) ==
    <<Entry("Everything_SetMatchPath", Bool(options.matchPath)),
      Entry("Everything_SetMatchCase", Bool(options.matchCase)),
      Entry("Everything_SetMatchWholeWord", Bool(options.matchWholeWord)),
      Entry("Everything_SetRegex", Bool(options.regex)),
      Entry("Everything_SetMax",
            IF options.maxResults.t = "number" THEN options.maxResults
            ELSE Num(1000)),
      Entry("Everything_SetOffset",
            IF options.offset.t = "number" THEN options.offset ELSE Num(0))>>
    \o IPCSortCalls(options.sortBy, options.sortOrder)

\* if (typeof v === "number") { args.push(flag, v.toString()) }
CLINumberArgs(flag, v) ==
    IF v.t = "number" THEN <<Arg(flag), Entry("arg", ToStringOf(v))>>
    ELSE <<>>

\* a plausible slip: the switch has a default that throws for a sortBy it
\* has no case for
CLISortArgsStrict(sortBy, sortOrder) ==
    IF sortBy = "undefined" THEN <<>>
    ELSE (CASE sortBy = "date" -> <<Arg("-s")>>
            [] sortBy = "name" -> <<>>
            [] sortBy = "size" -> <<Arg("/os")>>
            [] sortBy = "path" -> <<Arg("-s")>>
            [] OTHER -> <<Entry("arg", Thrown)>>)
         \o (IF sortOrder = "desc"
             THEN CASE sortBy = "size" -> <<Arg("/o-s")>>
                    [] sortBy = "date" -> <<Arg("/o-d")>>
                    [] sortBy = "name" -> <<Arg("/o-n")>>
                    [] OTHER -> <<>>
             ELSE <<>>)

\* if (options.sortBy) { switch (options.sortBy) ...; if (options.sortOrder
\* === "desc") ... }: run-count has no case, path no descending form
CLISortArgs(sortBy, sortOrder) ==
    IF sortBy = "undefined" THEN <<>>
    ELSE (CASE sortBy = "date" -> <<Arg("-s")>>
            [] sortBy = "name" -> <<>>
            [] sortBy = "size" -> <<Arg("/os")>>
            [] sortBy = "path" -> <<Arg("-s")>>
            [] OTHER -> <<>>)
         \o (IF sortOrder = "desc"
             THEN CASE sortBy = "size" -> <<Arg("/o-s")>>
                    [] sortBy = "date" -> <<Arg("/o-d")>>
                    [] sortBy = "name" -> <<Arg("/o-n")>>
                    [] OTHER -> <<>>
             ELSE <<>>)

\* CLIAdapter.search: args
CLISearchRequest(options) ==
    (IF options.matchCase THEN <<Arg("-case")>> ELSE <<>>)
    \o (IF options.matchWholeWord THEN <<Arg("-whole-word")>> ELSE <<>>)
    \o (IF options.regex THEN <<Arg("-regex")>> ELSE <<>>)
    \o CLINumberArgs("-n", options.maxResults)
    \o CLINumberArgs("-o", options.offset)
    \o CLISortArgs(options.sortBy, options.sortOrder)
    \o <<Arg("-csv")>>

\* b ? "1" : "0"
Flag(b) == Str(<<IF b THEN "1" ELSE "0">>)

\* if (typeof v === "number") { params.set(key, v.toString()) }
HTTPNumberParam(params, key, v) ==
    IF v.t = "number" THEN ParamsSet(params, key, ToStringOf(v)) ELSE params

\* HTTPAdapter.search: params, without the fixed column switches
HTTPSearchRequest(options) ==
    LET params ==
            <<Entry("o", Str(<<"0">>)),
              Entry("c", Str(<<"3", "2">>)),
              Entry("j", Str(<<"1">>)),
              Entry("i", Flag(options.matchCase)),
              Entry("w", Flag(options.matchWholeWord)),
              Entry("p", Str(<<"1">>)),
              Entry("r", Flag(options.regex)),
              Entry("m", Flag(options.matchCase)),
              Entry("sort",
                    Str(<<IF options.sortBy = "undefined" THEN "name"
                          ELSE options.sortBy>>)),
              Entry("ascending", Flag(options.sortOrder = "asc"))>>
    IN HTTPNumberParam(HTTPNumberParam(params, "c", options.maxResults),
                       "o", options.offset)

\* the request search makes of its options
SearchRequest(a, options) ==
    CASE a = "ipc" -> IPCSearchRequest(options)
      [] a = "cli" -> CLISearchRequest(options)
      [] a = "http" -> HTTPSearchRequest(options)

\* building the request threw
Throws(request) == \E i \in 1..Len(request) : request[i].val.t = "throw"

\* the number of results a request asks for at most: the argument of
\* Everything_SetMax, the value of c, the argument after -n (Undefined
\* without one: all results)
RequestLimit(a, request) ==
    CASE a = "ipc" -> Lookup(request, "Everything_SetMax")
      [] a = "http" -> ToNumber(Lookup(request, "c"))
      [] a = "cli" ->
            IF \E i \in 1..Len(request) : request[i] = Arg("-n")
            THEN ToNumber(request[(CHOOSE i \in 1..Len(request) :
                                       request[i] = Arg("-n")) + 1].val)
            ELSE Undefined

\* a response of the engine to a request of at most limit results from the
\* first on: a window of limit results at most, and matches beyond the
\* window only when the window is full
Honours(resp, limit) ==
    limit.t = "number" =>
        /\ Len(resp.records) <= limit.n
        /\ resp.tot > Len(resp.records) => Len(resp.records) = limit.n

\* the responses of the transport of adapter a to the search it is sent
\* for the given options
SearchResponsesTo(a, options) ==
    {resp \in SearchResponses(a) :
        Honours(resp, RequestLimit(a, SearchRequest(a, options)))}

(***************************************************************************)
(* State.                                                                  *)
(***************************************************************************)
VARIABLES
    adapter,      \* which adapter class the instance is
    connected,    \* this.connected
    connecting,   \* HTTPAdapter: this.connecting
    ffi,          \* IPCAdapter: this.ffi is loaded (not null)
    everything,   \* IPCAdapter: this.everything is a library handle (not null)
    sub,          \* per subscription: "none", "on" (running / interval set), "off"
    lastResults,  \* per subscription: the closure's lastResults
    timer,        \* per subscription: a setTimeout is pending / the interval is set
    tick,         \* per subscription: how many in-flight ticks are in each phase
    seeded,       \* per subscription: a search of it has completed successfully
    afterUnsub,   \* per subscription: callback invocations since unsubscribe (0, 1, 2 = more)
    callerPc,     \* the caller's own connect(): "idle" or "connect" (probe pending)
    unhandled,    \* a rejection escaped a polling tick
    ev,           \* the last event: what the last handler did
    prev, cur,    \* detectChanges: its two arguments
    out,          \* detectChanges: its return value
    dpc,          \* detectChanges: "idle", "call" or "done"
    op,           \* the caller's operation: its kind, position and outcome
    raw,          \* a parser: the transport record it is given
    parsed,       \* a parser: the canonical results it returns
    ppc,          \* a parser: "idle", "call" or "done"
    query,        \* a search on a connected adapter: its options and outcome
    client,       \* construction and the facade: platform, outcome, last call
    poll,         \* the ticks of a subscription on the engine's responses
    currentQuery, \* CLIAdapter, HTTPAdapter: this.currentQuery
    lib,          \* IPCAdapter: the query state of the library this.everything
    calls,        \* the last search of the caller and the last one of a tick
    hist,         \* what was searched, configured and counted so far
    dropped       \* history, kept by SpecDropped: disconnect() has returned
                  \* and the caller has called no operation since

adapterVars == <<adapter, connected, connecting, ffi, everything>>
monitorVars == <<sub, lastResults, timer, tick, seeded, afterUnsub>>
diffVars == <<prev, cur, out, dpc>>
opVars == <<op>>
parseVars == <<raw, parsed, ppc>>
sharedVars == <<currentQuery, lib, calls, hist>>
restVars == <<query, client, poll, currentQuery, lib, calls, hist, dropped>>
vars == <<adapter, connected, connecting, ffi, everything, sub, lastResults,
          timer, tick, seeded, afterUnsub, callerPc, unhandled, ev,
          prev, cur, out, dpc, op, raw, parsed, ppc, query, client, poll,
          currentQuery, lib, calls, hist, dropped>>

NoErr == [kind |-> "none", text |-> "none"]

\* the record of one handler's run; every field a handler does not set
\* keeps the value given here
Event(type, s) ==
    [type |-> type, sub |-> s, started |-> FALSE, first |-> FALSE,
     diffed |-> FALSE, called |-> FALSE, threw |-> FALSE, changes |-> <<>>,
     probe |-> "none", diag |-> "none", err |-> NoErr]

\* the number of ticks of subscription s in flight
InFlight(s) == tick[s]["connect"] + tick[s]["query"] + tick[s]["rejected"]

RECURSIVE TotalInFlight(_)
\* the number of ticks in flight of the subscriptions in S
TotalInFlight(S) ==
    IF S = {} THEN 0
    ELSE LET s == CHOOSE x \in S : TRUE
         IN InFlight(s) + TotalInFlight(S \ {s})

Min(a, b) == IF a < b THEN a ELSE b

(***************************************************************************)
(* connect(): the probe and its failure.                                   *)
(***************************************************************************)
\* the stages of a probe that can fail
ProbeStages(a, ffiLoaded) ==
    CASE a = "ipc" -> (IF ffiLoaded THEN {} ELSE {"import"})
                      \cup {"library", "lasterror"}
      [] a = "cli" -> {"exec"}
      [] a = "http" -> {"fetch"}

\* the message of the error that reaches connect()'s catch; the IPC adapter
\* replaces a failed import's error by an error with a fixed text
ProbeDiag(stage) ==
    CASE stage = "import" -> "Failed to load FFI modules"
      [] stage = "library" -> "Dynamic Linking Error"
      [] stage = "lasterror" -> "Everything error code"
      [] stage = "exec" -> "Command failed"
      [] stage = "fetch" -> "fetch failed"

\* a plausible slip: the catch throws an error without the cause's message
ConnectErrorNoCause(a, diag) ==
    [kind |-> "EverythingConnectionError", text |-> "Failed to connect"]

\* catch (error) { throw new EverythingConnectionError(`...: ${error.message}`) }
ConnectError(a, diag) ==
    [kind |-> "EverythingConnectionError", text |-> diag]

\* a plausible slip: no early return, the probe runs on every connect()
ConnectReturnsEarlyNever(isConnected) == FALSE

\* if (this.connected) { return; }
ConnectReturnsEarly(isConnected) == isConnected

\* HTTPAdapter: if (this.connecting) throw 'Connection already in progress'
ConnectBusy == adapter = "http" /\ connecting

BusyError ==
    [kind |-> "EverythingConnectionError",
     text |-> "Connection already in progress"]

\* the probe begins: HTTPAdapter sets this.connecting
ProbeBegin ==
    /\ connecting' = (IF adapter = "http" THEN TRUE ELSE connecting)
    /\ UNCHANGED <<adapter, connected, ffi, everything>>

\* the probe succeeded: this.connected = true (IPC: the modules and the
\* library handle are stored; HTTP: finally { this.connecting = false })
ProbeOk ==
    /\ connected' = TRUE
    /\ ffi' = (IF adapter = "ipc" THEN TRUE ELSE ffi)
    /\ everything' = (IF adapter = "ipc" THEN TRUE ELSE everything)
    /\ connecting' = (IF adapter = "http" THEN FALSE ELSE connecting)
    /\ UNCHANGED adapter

\* the probe failed at a stage: this.connected is not assigned. IPC keeps
\* what the earlier stages stored (the modules after a failed Library(), the
\* library handle after a non-zero Everything_GetLastError())
ProbeFail(stage) ==
    /\ ffi' = (IF stage \in {"library", "lasterror"} THEN TRUE ELSE ffi)
    /\ everything' = (IF stage = "lasterror" THEN TRUE ELSE everything)
    /\ connecting' = (IF adapter = "http" THEN FALSE ELSE connecting)
    /\ UNCHANGED <<adapter, connected>>


(***************************************************************************)
(* The caller's asynchronous operations: search, getVersion, rebuildIndex  *)
(* and getSearchStatus, one in flight at a time.                           *)
(***************************************************************************)
OpKinds == {"search", "getVersion", "rebuildIndex", "getSearchStatus"}

\* SearchStatus, before any is made
NoStatus ==
    [totalResults |-> Undefined, indexingComplete |-> FALSE,
     percentComplete |-> 0]

RECURSIVE DigitPrefix(_)
\* the decimal digits a string begins with
DigitPrefix(s) ==
    IF s = <<>> \/ ~IsDigit(s[1]) THEN <<>>
    ELSE <<s[1]>> \o DigitPrefix(Tail(s))

\* Number.parseInt(s, 10) of an unsigned text: leading white space is
\* skipped, the digits up to the first other character are read, and
\* without a digit the value is NaN
ParseInt(s) ==
    LET digits == DigitPrefix(TrimStart(s))
    IN IF digits = <<>> THEN NaN ELSE Num(DecimalValue(digits))

\* IPCAdapter.getSearchStatus: { totalResults, indexingComplete,
\* percentComplete: indexingComplete ? 100 : 50 }
IPCSearchStatus(totalResults, indexingComplete) ==
    [totalResults |-> Num(totalResults),
     indexingComplete |-> indexingComplete,
     percentComplete |-> IF indexingComplete THEN 100 ELSE 50]

\* CLIAdapter.getSearchStatus: totalResults = Number.parseInt(
\* stdout.trim(), 10), indexingComplete: true, percentComplete: 100
CLISearchStatus(stdout) ==
    [totalResults |-> ParseInt(Trim(stdout)), indexingComplete |-> TRUE,
     percentComplete |-> 100]

\* HTTPAdapter.getSearchStatus: totalResults: data.totalResults || 0,
\* indexingComplete: true, percentComplete: 100
HTTPSearchStatus(data) ==
    [totalResults |-> OrElse(data.totalResults, Num(0)),
     indexingComplete |-> TRUE, percentComplete |-> 100]

\* what es.exe -get-result-count can write to stdout: a count, with white
\* space around it or other text after it, other text, or nothing
CountOutputs == SeqsUpTo({" ", "0", "7", "a"}, MaxCountLen)

\* the bodies the HTTP server answers a count request with: totalResults
\* a number, or absent
CountBodies == [totalResults : {Undefined} \cup {Num(k) : k \in 0..MaxTotal}]

\* the statuses getSearchStatus of adapter a can make of what its
\* transport reports: Everything_GetTotResults() and
\* Everything_IsDBLoaded(), the stdout of es.exe, the body of the server
SearchStatuses(a) ==
    CASE a = "ipc" ->
            {IPCSearchStatus(k, loaded) : k \in 0..MaxTotal, loaded \in BOOLEAN}
      [] a = "cli" -> {CLISearchStatus(stdout) : stdout \in CountOutputs}
      [] a = "http" -> {HTTPSearchStatus(data) : data \in CountBodies}

\* no operation called yet
NoOp ==
    [kind |-> "none", pc |-> "idle", unconnected |-> FALSE, probe |-> "none",
     disc |-> FALSE, status |-> "none", err |-> NoErr, cause |-> "none",
     failedAt |-> "none",
     resp |-> [wellFormed |-> TRUE, records |-> <<>>, tot |-> 0],
     value |-> <<>>, text |-> "none", opts |-> NoOptions, st |-> NoStatus]

\* the options an operation can be called with: search with a maxResults
\* or none, its other options absent
OpOptions(kind) == IF kind = "search" THEN WindowOptions ELSE {NoOptions}

\* the operation is called: unconnected records !this.connected at the call
OpStart(kind, isConnected) ==
    [NoOp EXCEPT !.kind = kind, !.pc = "called", !.unconnected = ~isConnected]

\* the promise of the operation is fulfilled
OpOk(o, resp, value) ==
    [o EXCEPT !.pc = "done", !.status = "ok", !.resp = resp, !.value = value]

\* the promise of the operation is rejected with err, thrown for cause in
\* phase ph of the operation
OpError(o, ph, err, cause) ==
    [o EXCEPT !.pc = "done", !.status = "error", !.err = err,
              !.cause = cause, !.failedAt = ph]

\* a plausible slip: no operation connects by itself
OpConnectsNever(a, kind) == FALSE

\* if (!this.connected) { await this.connect(); } opens every operation (in
\* HTTPAdapter.rebuildIndex it is the one of makeRequest) except
\* HTTPAdapter.getVersion, which has no such line
OpConnects(a, kind) == ~(a = "http" /\ kind = "getVersion")

\* a plausible slip: the catch of search rethrows what it caught
SearchErrorRethrows(cause) == [kind |-> "Error", text |-> cause]

\* search: catch (error) { throw new EverythingSearchError(`Search failed:
\* ${error.message}`) }
SearchErrorOf(cause) == [kind |-> "EverythingSearchError", text |-> cause]

\* the error an operation throws when its transport request fails
RequestError(a, kind, cause) ==
    CASE kind = "search" -> SearchErrorOf(cause)
      [] a = "http" /\ kind = "getSearchStatus" -> SearchErrorOf(cause)
      [] a = "cli" -> [kind |-> "EverythingCLIError", text |-> cause]
      [] OTHER -> [kind |-> "EverythingConnectionError", text |-> cause]

\* how the awaited transport request of an operation can fail: the child
\* process exits non-zero or (search) writes to stderr; the fetch rejects
RequestCauses(a, kind) ==
    CASE a = "cli" -> IF kind = "search" THEN {"Command failed", "stderr"}
                      ELSE {"Command failed"}
      [] a = "http" -> {"fetch failed"}
      [] OTHER -> {}

\* a plausible slip: HTTPAdapter.getVersion asks the server, as the other
\* operations do
HTTPGetVersionAsks(o) == {[o EXCEPT !.pc = "request"]}

\* HTTPAdapter.getVersion: return "Unknown Version", and nothing else
HTTPGetVersion(o) ==
    {[OpOk(o, NoOp.resp, <<>>) EXCEPT !.text = "Unknown Version"]}

\* what an operation other than search returns when its transport has
\* answered
OpResults(o, a) ==
    IF o.kind = "getSearchStatus"
    THEN {[OpOk(o, NoOp.resp, <<>>) EXCEPT !.st = st] :
             st \in SearchStatuses(a)}
    ELSE {OpOk(o, NoOp.resp, <<>>)}

NotConnectedError ==
    [kind |-> "EverythingConnectionError",
     text |-> "Not connected to Everything"]

\* what follows the opening connect of operation o, with handle =
\* this.everything: the possible next values of the operation
Proceed(o, a, handle) ==
    IF a = "http" /\ o.kind = "getVersion"
    THEN HTTPGetVersion(o)
    ELSE IF a = "ipc"
    THEN IF ~handle
         THEN {OpError(o, "handle", NotConnectedError, NotConnectedError.text)}
         ELSE IF o.kind = "search"
         THEN IF Throws(SearchRequest(a, o.opts))
              THEN {OpError(o, "build", SearchErrorOf("TypeError"),
                            "TypeError")}
              ELSE {[o EXCEPT !.pc = "wait"],
                    OpError(o, "query",
                            SearchErrorOf("Failed to execute search query"),
                            "Failed to execute search query")}
         ELSE OpResults(o, a)
    ELSE IF o.kind = "search" /\ Throws(SearchRequest(a, o.opts))
    THEN {OpError(o, "build", SearchErrorOf("TypeError"), "TypeError")}
    ELSE {[o EXCEPT !.pc = "request"]}

(***************************************************************************)
(* monitorFileChanges: the pieces of one polling tick.                     *)
(***************************************************************************)
\* IPC and CLI: if (lastResults.length > 0) { detectChanges ... };
\* HTTP: detectChanges(lastResults, newResults) on every tick
ShouldDiff(a, last) == IF a = "http" THEN TRUE ELSE Len(last) > 0

\* a plausible slip: the callback is invoked on every diff
ShouldCallAlways(changes) == TRUE

\* if (changes.length > 0) { callback(changes); }
ShouldCall(changes) == Len(changes) > 0

\* a plausible slip: the baseline is a field of the adapter, shared by all
\* its subscriptions
SetLastShared(last, s, results) == [t \in Subs |-> results]

\* lastResults = results, on the closure's own variable
SetLast(last, s, results) == [last EXCEPT ![s] = results]

\* a plausible slip: poll does not look at the flag
PollRunsAlways(state) == TRUE

\* IPC and CLI: if (!running) return;
PollRuns(state) == state = "on"

\* a plausible slip: the tick's body is not inside try/catch
PollCatchesNothing(a) == FALSE

\* try { ... } catch (error) { /* ignored, or console.error */ }
PollCatches(a) == TRUE

\* search("*") is entered: with the adapter connected the transport query
\* is issued; otherwise connect() is awaited first, and HTTPAdapter.connect
\* rejects at once while another connect is in progress
SearchEntry ==
    IF connected THEN "query"
    ELSE IF ConnectBusy THEN "rejected"
    ELSE "connect"

\* a tick of subscription s begins
BeginTick(s) ==
    /\ tick' = [tick EXCEPT ![s][SearchEntry] = @ + 1]
    /\ IF SearchEntry = "connect" THEN ProbeBegin ELSE UNCHANGED adapterVars

\* a tick of s in phase ph ends with its search rejected
TickFail(s, ph, err, diag) ==
    /\ tick' = [tick EXCEPT ![s][ph] = @ - 1]
    /\ IF PollCatches(adapter)
       THEN /\ timer' = (IF adapter = "http" THEN timer
                         ELSE [timer EXCEPT ![s] = TRUE])
            /\ UNCHANGED unhandled
       ELSE /\ unhandled' = TRUE
            /\ UNCHANGED timer
    /\ ev' = [Event("tick_err", s) EXCEPT
                !.err = err, !.diag = diag,
                !.probe = IF diag = "none" THEN "none" ELSE "fail"]
    /\ UNCHANGED <<sub, lastResults, seeded, afterUnsub, callerPc>>
    /\ UNCHANGED <<diffVars, opVars, parseVars, restVars>>

(***************************************************************************)
(* The caller's operations.                                                *)
(***************************************************************************)
\* monitorFileChanges(callback). IPC and CLI: running = true, lastResults =
\* [] and poll() is called at once. HTTP: lastResults = [] and setInterval.
\* d is the value the history variable dropped takes.
SubscribeNoting(s, d) ==
    /\ sub[s] = "none"
    /\ sub' = [sub EXCEPT ![s] = "on"]
    /\ lastResults' = [lastResults EXCEPT ![s] = <<>>]
    /\ IF adapter = "http"
       THEN /\ timer' = [timer EXCEPT ![s] = TRUE]
            /\ UNCHANGED <<tick, adapterVars>>
            /\ ev' = Event("subscribe", s)
       ELSE /\ BeginTick(s)
            /\ UNCHANGED timer
            /\ ev' = [Event("subscribe", s) EXCEPT !.started = TRUE]
    /\ dropped' = d
    /\ UNCHANGED <<seeded, afterUnsub, callerPc, unhandled>>
    /\ UNCHANGED <<diffVars, opVars, parseVars, query, client, poll>>
    /\ UNCHANGED sharedVars

Subscribe(s) == SubscribeNoting(s, dropped)

\* the unsubscribe handle. IPC and CLI: running = false. HTTP: clearInterval.
Unsubscribe(s) ==
    /\ sub[s] = "on"
    /\ sub' = [sub EXCEPT ![s] = "off"]
    /\ timer' = (IF adapter = "http" THEN [timer EXCEPT ![s] = FALSE]
                 ELSE timer)
    /\ ev' = Event("unsubscribe", s)
    /\ UNCHANGED <<lastResults, tick, seeded, afterUnsub, callerPc, unhandled>>
    /\ UNCHANGED adapterVars
    /\ UNCHANGED <<diffVars, opVars, parseVars, restVars>>

\* a plausible slip: disconnect() clears the flag and keeps the handle
DisconnectKeepsHandle(a, handle) == handle

\* IPCAdapter.disconnect: this.everything = null; this.ffi = null (the other
\* adapters hold no handle)
DisconnectHandle(a, handle) == IF a = "ipc" THEN FALSE ELSE handle

\* disconnect(): synchronous, no call that can throw
DisconnectNoting(d) ==
    /\ connected' = FALSE
    /\ everything' = DisconnectHandle(adapter, everything)
    /\ ffi' = DisconnectHandle(adapter, ffi)
    /\ ev' = Event("disconnect", 0)
    /\ op' = [op EXCEPT !.disc = @ \/ op.pc \notin {"idle", "done"}]
    /\ dropped' = d
    /\ UNCHANGED <<adapter, connecting, callerPc, unhandled>>
    /\ UNCHANGED monitorVars
    /\ UNCHANGED <<diffVars, parseVars, query, client, poll>>
    /\ UNCHANGED sharedVars

Disconnect == DisconnectNoting(dropped)

\* connect() called by the caller
ConnectCallNoting(d) ==
    /\ callerPc = "idle"
    /\ IF ConnectReturnsEarly(connected)
       THEN /\ ev' = Event("connect_return", 0)
            /\ UNCHANGED <<adapterVars, callerPc>>
       ELSE IF ConnectBusy
       THEN /\ ev' = [Event("connect_busy", 0) EXCEPT !.err = BusyError]
            /\ UNCHANGED <<adapterVars, callerPc>>
       ELSE /\ ev' = Event("connect_probe", 0)
            /\ callerPc' = "connect"
            /\ ProbeBegin
    /\ dropped' = d
    /\ UNCHANGED unhandled
    /\ UNCHANGED monitorVars
    /\ UNCHANGED <<diffVars, opVars, parseVars, query, client, poll>>
    /\ UNCHANGED sharedVars

ConnectCall == ConnectCallNoting(dropped)

\* the probe of the caller's connect() completes
ConnectDone ==
    /\ callerPc = "connect"
    /\ callerPc' = "idle"
    /\ \/ /\ ProbeOk
          /\ ev' = [Event("connect_ok", 0) EXCEPT !.probe = "ok"]
       \/ \E stage \in ProbeStages(adapter, ffi) :
             /\ ProbeFail(stage)
             /\ ev' = [Event("connect_fail", 0) EXCEPT
                         !.probe = "fail", !.diag = ProbeDiag(stage),
                         !.err = ConnectError(adapter, ProbeDiag(stage))]
    /\ UNCHANGED unhandled
    /\ UNCHANGED monitorVars
    /\ UNCHANGED <<diffVars, opVars, parseVars, restVars>>


(***************************************************************************)
(* The steps of a polling tick.                                            *)
(***************************************************************************)
SearchError == [kind |-> "EverythingSearchError", text |-> "Search failed"]

\* the timer of subscription s fires. IPC and CLI: poll() runs, returns at
\* once when running is false, and otherwise awaits search("*"). HTTP: the
\* interval callback awaits search("*") and the interval stays set.
Poll(s) ==
    /\ timer[s]
    /\ IF adapter = "http"
       THEN /\ TotalInFlight(Subs) < MaxInFlight
            /\ BeginTick(s)
            /\ ev' = [Event("tick_start", s) EXCEPT !.started = TRUE]
            /\ UNCHANGED timer
       ELSE /\ timer' = [timer EXCEPT ![s] = FALSE]
            /\ IF PollRuns(sub[s])
               THEN /\ BeginTick(s)
                    /\ ev' = [Event("tick_start", s) EXCEPT !.started = TRUE]
               ELSE /\ ev' = Event("poll_return", s)
                    /\ UNCHANGED <<tick, adapterVars>>
    /\ UNCHANGED <<sub, lastResults, seeded, afterUnsub, callerPc, unhandled>>
    /\ UNCHANGED <<diffVars, opVars, parseVars, restVars>>

\* HTTP: a tick's implicit connect() was rejected ('already in progress')
TickRejected(s) ==
    /\ tick[s]["rejected"] > 0
    /\ TickFail(s, "rejected", BusyError, "none")
    /\ UNCHANGED adapterVars

\* the probe of the tick's implicit connect() completes
TickConnectDone(s) ==
    /\ tick[s]["connect"] > 0
    /\ \/ /\ ProbeOk
          /\ tick' = [tick EXCEPT ![s]["connect"] = @ - 1,
                                  ![s]["query"] = @ + 1]
          /\ ev' = [Event("tick_connected", s) EXCEPT !.probe = "ok"]
          /\ UNCHANGED <<sub, lastResults, timer, seeded, afterUnsub,
                         callerPc, unhandled>>
          /\ UNCHANGED <<diffVars, opVars, parseVars, restVars>>
       \/ \E stage \in ProbeStages(adapter, ffi) :
             /\ ProbeFail(stage)
             /\ TickFail(s, "connect",
                         ConnectError(adapter, ProbeDiag(stage)),
                         ProbeDiag(stage))

\* the transport query of the tick fails (IPC: also when disconnect() has
\* set this.everything to null while the tick waited)
TickQueryFail(s) ==
    /\ tick[s]["query"] > 0
    /\ TickFail(s, "query", SearchError, "none")
    /\ UNCHANGED adapterVars

\* the transport query of the tick returns results: the rest of the tick
TickQueryOk(s) ==
    /\ tick[s]["query"] > 0
    /\ adapter = "ipc" => everything
    /\ \E results \in MonSnapshots, throws \in BOOLEAN :
         LET last == lastResults[s]
             diffed == ShouldDiff(adapter, last)
             changes == IF diffed THEN DetectChanges(adapter, last, results)
                        ELSE <<>>
             called == diffed /\ ShouldCall(changes)
         IN /\ throws => called
            /\ lastResults' = (IF throws THEN lastResults
                               ELSE SetLast(lastResults, s, results))
            /\ afterUnsub' =
                 [afterUnsub EXCEPT ![s] =
                    IF called /\ sub[s] = "off" THEN Min(@ + 1, 2) ELSE @]
            /\ ev' = [Event("tick_ok", s) EXCEPT
                        !.first = ~seeded[s], !.diffed = diffed,
                        !.called = called, !.threw = throws,
                        !.changes = changes]
    /\ seeded' = [seeded EXCEPT ![s] = TRUE]
    /\ tick' = [tick EXCEPT ![s]["query"] = @ - 1]
    /\ timer' = (IF adapter = "http" THEN timer
                 ELSE [timer EXCEPT ![s] = TRUE])
    /\ UNCHANGED <<sub, callerPc, unhandled>>
    /\ UNCHANGED adapterVars
    /\ UNCHANGED <<diffVars, opVars, parseVars, restVars>>

(***************************************************************************)
(* detectChanges called on two given snapshots.                            *)
(***************************************************************************)
Diff ==
    /\ dpc = "call"
    /\ out' = DetectChanges(adapter, prev, cur)
    /\ dpc' = "done"
    /\ UNCHANGED <<prev, cur, callerPc, unhandled, ev>>
    /\ UNCHANGED adapterVars
    /\ UNCHANGED monitorVars
    /\ UNCHANGED <<opVars, parseVars, restVars>>

(***************************************************************************)
(* The steps of an operation of the caller.                                *)
(***************************************************************************)
\* search, getVersion, rebuildIndex or getSearchStatus is called, and runs
\* to its first await
OpCall(kind) ==
    /\ op.pc \in {"idle", "done"}
    /\ \E options \in OpOptions(kind) :
         LET o == [OpStart(kind, connected) EXCEPT !.opts = options]
         IN IF connected \/ ~OpConnects(adapter, kind)
            THEN /\ op' \in Proceed(o, adapter, everything)
                 /\ UNCHANGED adapterVars
            ELSE IF ConnectBusy
            THEN /\ op' = OpError(o, "connect", BusyError, BusyError.text)
                 /\ UNCHANGED adapterVars
            ELSE /\ op' = [o EXCEPT !.pc = "connect"]
                 /\ ProbeBegin
    /\ UNCHANGED <<callerPc, unhandled, ev>>
    /\ UNCHANGED <<monitorVars, diffVars, parseVars, restVars>>

\* the probe of the operation's connect() completes
OpConnectDone ==
    /\ op.pc = "connect"
    /\ \/ /\ ProbeOk
          /\ op' \in Proceed([op EXCEPT !.probe = "ok"], adapter, TRUE)
       \/ \E stage \in ProbeStages(adapter, ffi) :
             /\ ProbeFail(stage)
             /\ op' = OpError([op EXCEPT !.probe = "fail"], "connect",
                              ConnectError(adapter, ProbeDiag(stage)),
                              ProbeDiag(stage))
    /\ UNCHANGED <<callerPc, unhandled, ev>>
    /\ UNCHANGED <<monitorVars, diffVars, parseVars, restVars>>

\* CLI and HTTP: the child process or the fetch of the operation completes
OpRequestDone ==
    /\ op.pc = "request"
    /\ \/ \E cause \in RequestCauses(adapter, op.kind) :
             op' = OpError(op, "request",
                           RequestError(adapter, op.kind, cause), cause)
       \/ /\ op.kind = "search"
          /\ \E resp \in SearchResponsesTo(adapter, op.opts), t \in Clock :
                op' = OpOk(op, resp, ParseResponse(adapter, resp, t))
       \/ /\ op.kind # "search"
          /\ op' \in OpResults(op, adapter)
    /\ UNCHANGED <<callerPc, unhandled, ev>>
    /\ UNCHANGED <<adapterVars, monitorVars, diffVars, parseVars, restVars>>

\* IPC: the 100 ms wait of search is over. With this.everything null
\* (disconnect() meanwhile) Everything_GetTotResults() throws a TypeError;
\* a getter that throws makes getResult throw; else the results are read.
OpWaitDone ==
    /\ op.pc = "wait"
    /\ IF ~everything
       THEN op' = OpError(op, "read", SearchErrorOf("TypeError"), "TypeError")
       ELSE \/ op' = OpError(op, "read",
                             SearchErrorOf("Failed to get result"),
                             "Failed to get result")
            \/ \E resp \in SearchResponsesTo(adapter, op.opts), t \in Clock :
                  op' = OpOk(op, resp, ParseResponse(adapter, resp, t))
    /\ UNCHANGED <<callerPc, unhandled, ev>>
    /\ UNCHANGED <<adapterVars, monitorVars, diffVars, parseVars, restVars>>

(***************************************************************************)
(* A parser applied to one given record of its transport.                  *)
(***************************************************************************)
Parse ==
    /\ ppc = "call"
    /\ \E t \in Clock : parsed' = ParseRecord(adapter, raw, t)
    /\ ppc' = "done"
    /\ UNCHANGED <<raw, callerPc, unhandled, ev>>
    /\ UNCHANGED <<adapterVars, monitorVars, diffVars, opVars, restVars>>

(***************************************************************************)
(* A search with any options on a connected adapter whose transport is    *)
(* healthy: the request is built and the transport answers it.            *)
(***************************************************************************)
\* no search called
NoQuery ==
    [options |-> NoOptions, pc |-> "idle", status |-> "none", err |-> NoErr]

\* search(query, options) with this.connected (and this.everything) set:
\* the request is built inside try, what building it throws is caught and
\* thrown again as a SearchError, and the transport answers what is sent
Query ==
    /\ query.pc = "call"
    /\ connected
    /\ adapter = "ipc" => everything
    /\ query' =
          IF Throws(SearchRequest(adapter, query.options))
          THEN [query EXCEPT !.pc = "done", !.status = "error",
                             !.err = SearchErrorOf("TypeError")]
          ELSE [query EXCEPT !.pc = "done", !.status = "ok"]
    /\ UNCHANGED <<callerPc, unhandled, ev, client, poll>>
    /\ UNCHANGED <<sharedVars, dropped>>
    /\ UNCHANGED <<adapterVars, monitorVars, diffVars, opVars, parseVars>>

(***************************************************************************)
(* Construction: the adapters' constructors, createClient, and the client  *)
(* facade EverythingClientImpl over the adapter it is given.               *)
(***************************************************************************)
\* os.platform()
Platforms == {"win32", "linux", "darwin"}

\* ClientOptions.adapter, absent or given, with a name that is none of them
AdapterChoices == {"undefined", "auto", "cli", "ipc", "http", "other"}

Object(k) == JSValue("object", 0, k, <<>>)

Function(k) == JSValue("function", 0, k, <<>>)

ErrorValue(k) == JSValue("error", 0, k, <<>>)

\* the outcome of a call: the value returned (for an asynchronous
\* operation, the value its promise is fulfilled with) or the error thrown
\* (the reason it is rejected with)
Returns(val) == [threw |-> FALSE, val |-> val]

ThrowsError(val) == [threw |-> TRUE, val |-> val]

Call(name, args) == [name |-> name, args |-> args]

NoCall == Call("none", <<>>)

\* nothing constructed and no operation of the facade called. ipcUsable:
\* the FFI modules and the native library can be loaded on this machine
NoClient ==
    [platform |-> "win32", browser |-> FALSE, ipcUsable |-> TRUE,
     choice |-> "none", made |-> "none", tried |-> <<>>, err |-> NoErr, facade |-> FALSE, held |-> "none",
     call |-> NoCall, forwarded |-> <<>>, outcome |-> Returns(Undefined),
     returned |-> Returns(Undefined), pc |-> "idle"]

Constructed(kind, tried) ==
    [ok |-> TRUE, kind |-> kind, err |-> NoErr, tried |-> tried]

ConstructFailed(err, tried) ==
    [ok |-> FALSE, kind |-> "none", err |-> err, tried |-> tried]

\* a plausible slip: the constructor of IPCAdapter does not look at the
\* platform
ConstructAdapterUngated(kind, platform) ==
    IF kind = "cli" /\ platform # "win32"
    THEN ConstructFailed([kind |-> "EverythingCLIError",
                          text |-> "CLI adapter is only available on Windows"],
                         <<kind>>)
    ELSE Constructed(kind, <<kind>>)

\* new IPCAdapter(options), new CLIAdapter(options), new
\* HTTPAdapter(options): the first two throw on a platform other than win32
\* before they assign a field
ConstructAdapter(kind, platform) ==
    IF kind = "ipc" /\ platform # "win32"
    THEN ConstructFailed([kind |-> "EverythingIPCError",
                          text |-> "IPC adapter is only available on Windows"],
                         <<kind>>)
    ELSE IF kind = "cli" /\ platform # "win32"
    THEN ConstructFailed([kind |-> "EverythingCLIError",
                          text |-> "CLI adapter is only available on Windows"],
                         <<kind>>)
    ELSE Constructed(kind, <<kind>>)

\* selectAdapter(options), with browser = (typeof window !== "undefined"
\* && typeof process === "undefined")
SelectAdapter(choice, platform, browser) ==
    IF choice \notin {"undefined", "auto"}
    THEN IF choice \in Adapters
         THEN ConstructAdapter(choice, platform)
         ELSE ConstructFailed([kind |-> "EverythingError",
                               text |-> "Unknown adapter"], <<>>)
    ELSE IF browser
    THEN ConstructAdapter("http", platform)
    ELSE IF platform = "win32"
    THEN LET ipc == ConstructAdapter("ipc", platform)
             cli == ConstructAdapter("cli", platform)
         IN IF ipc.ok THEN ipc
            ELSE [cli EXCEPT !.tried = <<"ipc", "cli">>]
    ELSE ConstructAdapter("http", platform)

\* the eight operations of EverythingClient
FacadeOps ==
    {"search", "connect", "disconnect", "isConnected", "getVersion",
     "rebuildIndex", "getSearchStatus", "monitorFileChanges"}

\* the arguments an operation of the facade can be called with: search
\* with a query and options or none, monitorFileChanges with a callback
CallArgs(name) ==
    CASE name = "search" ->
            {<<q, o>> : q \in {Str(<<"*">>), Str(<<"a">>)},
                        o \in {Undefined, Object(1), Object(2)}}
      [] name = "monitorFileChanges" -> {<<Function(k)>> : k \in 1..2}
      [] OTHER -> {<<>>}

\* what the adapter's operation can return or throw: disconnect returns
\* nothing, isConnected a boolean, the others a value of their own
AdapterOutcomes(name) ==
    {ThrowsError(ErrorValue(k)) : k \in 1..2}
    \cup (CASE name = "disconnect" -> {Returns(Undefined)}
            [] name = "isConnected" -> {Returns(Bool(b)) : b \in BOOLEAN}
            [] name \in {"connect", "rebuildIndex"} -> {Returns(Undefined)}
            [] name = "monitorFileChanges" ->
                  {Returns(Function(k)) : k \in 3..4}
            [] OTHER -> {Returns(Object(k)) : k \in 3..4})

\* a plausible slip: search of the facade does not pass its options on
ForwardedNoOptions(name, args) ==
    CASE name = "search" -> <<Call("search", <<args[1], Undefined>>)>>
      [] name = "connect" -> <<Call("connect", <<>>)>>
      [] name = "disconnect" -> <<Call("disconnect", <<>>)>>
      [] name = "isConnected" -> <<Call("isConnected", <<>>)>>
      [] name = "getVersion" -> <<Call("getVersion", <<>>)>>
      [] name = "rebuildIndex" -> <<Call("rebuildIndex", <<>>)>>
      [] name = "getSearchStatus" -> <<Call("getSearchStatus", <<>>)>>
      [] name = "monitorFileChanges" ->
            <<Call("monitorFileChanges", <<args[1]>>)>>

\* EverythingClientImpl: the calls each operation makes on this.adapter
Forwarded(name, args) ==
    CASE name = "search" -> <<Call("search", <<args[1], args[2]>>)>>
      [] name = "connect" -> <<Call("connect", <<>>)>>
      [] name = "disconnect" -> <<Call("disconnect", <<>>)>>
      [] name = "isConnected" -> <<Call("isConnected", <<>>)>>
      [] name = "getVersion" -> <<Call("getVersion", <<>>)>>
      [] name = "rebuildIndex" -> <<Call("rebuildIndex", <<>>)>>
      [] name = "getSearchStatus" -> <<Call("getSearchStatus", <<>>)>>
      [] name = "monitorFileChanges" ->
            <<Call("monitorFileChanges", <<args[1]>>)>>

\* EverythingClientImpl: what each operation makes of the outcome of the
\* adapter's: disconnect has no return statement, the others return it
Delivered(name, outcome) ==
    IF name = "disconnect" /\ ~outcome.threw THEN Returns(Undefined)
    ELSE outcome

\* createXAdapter(options), called by the user
Construct(kind) ==
    /\ client.made = "none"
    /\ LET r == ConstructAdapter(kind, client.platform)
       IN /\ client' = [client EXCEPT
                          !.made = IF r.ok THEN "ok" ELSE "error",
                          !.tried = r.tried, !.err = r.err]
          /\ adapter' = IF r.ok THEN r.kind ELSE adapter
    /\ UNCHANGED <<connected, connecting, ffi, everything>>
    /\ UNCHANGED <<callerPc, unhandled, ev, query, poll>>
    /\ UNCHANGED <<sharedVars, dropped>>
    /\ UNCHANGED <<monitorVars, diffVars, opVars, parseVars>>

\* createClient(options): selectAdapter(options), then new
\* EverythingClientImpl(adapter)
CreateClient(choice) ==
    /\ client.made = "none"
    /\ LET r == SelectAdapter(choice, client.platform, client.browser)
       IN /\ client' = [client EXCEPT
                          !.choice = choice,
                          !.made = IF r.ok THEN "ok" ELSE "error",
                          !.tried = r.tried, !.err = r.err,
                          !.facade = r.ok, !.held = r.kind]
          /\ adapter' = IF r.ok THEN r.kind ELSE adapter
    /\ UNCHANGED <<connected, connecting, ffi, everything>>
    /\ UNCHANGED <<callerPc, unhandled, ev, query, poll>>
    /\ UNCHANGED <<sharedVars, dropped>>
    /\ UNCHANGED <<monitorVars, diffVars, opVars, parseVars>>

\* an operation of the facade is called: it calls this.adapter, whose
\* operation returns or throws, and returns
ClientCall(name) ==
    /\ client.facade
    /\ \E args \in CallArgs(name), outcome \in AdapterOutcomes(name) :
          client' = [client EXCEPT
                       !.call = Call(name, args),
                       !.forwarded = Forwarded(name, args),
                       !.outcome = outcome,
                       !.returned = Delivered(name, outcome),
                       !.pc = "done"]
    /\ UNCHANGED <<callerPc, unhandled, ev, query, poll>>
    /\ UNCHANGED <<sharedVars, dropped>>
    /\ UNCHANGED <<adapterVars, monitorVars, diffVars, opVars, parseVars>>

(***************************************************************************)
(* The ticks of one subscription, each search of which succeeds, with the  *)
(* response of the engine and the parser of the adapter in the loop.       *)
(***************************************************************************)
\* the modification times the engine reports for a file
PollTicks == {WINDOWS_EPOCH_OFFSET, Ticks(WINDOWS_EPOCH_OFFSET.h, 10000)}

\* the records of the responses to the search of a tick: the file a, in
\* the folder p or in none, modified at one of two times (HTTP: or
\* reported without a time); the lines of es.exe carry a full path only,
\* of the files a, \a and aa
PollRecords(a) ==
    CASE a = "ipc" ->
            [fileName : {Str(<<"a">>)}, path : {Str(<<>>), Str(<<"p">>)},
             size : {Num(42)}, dateModified : PollTicks,
             attributes : {Num(0)}, isFolder : {FALSE}]
      [] a = "http" ->
            [type : {"file"}, name : {Str(<<"a">>)},
             path : {Undefined, Str(<<"p">>)}, size : {Num(42)},
             date_modified : {Undefined} \cup PollTicks,
             attributes : {Num(0)}]
      [] a = "cli" -> {<<"a">>, <<Sep, "a">>, <<"a", "a">>}

\* the file a record is of
FileOf(a, record) ==
    CASE a = "ipc" -> <<record.path, record.fileName>>
      [] a = "http" -> <<record.path, record.name>>
      [] a = "cli" -> <<record>>

\* the responses to the search of a tick, each file once; search("*") asks
\* for the default window, which holds every match
PollResponses(a) ==
    {[wellFormed |-> TRUE, records |-> q, tot |-> Len(q)] :
        q \in {q \in SeqsUpTo(PollRecords(a), MaxRecords) :
                  \A i, j \in 1..Len(q) :
                      i # j => FileOf(a, q[i]) # FileOf(a, q[j])}}

\* the reading of new Date() while the response of a tick is parsed. Ticks
\* are a second or more apart, so the reading differs from the one of the
\* tick before; only those two are ever compared, and two readings, taken
\* in turn, stand for all
PollClock(t) == DateMs(17, t)

\* no tick yet
NoPoll ==
    [n |-> 0, t |-> 0, resp |-> NoOp.resp, before |-> NoOp.resp,
     last |-> <<>>, diffed |-> FALSE, changes |-> <<>>, called |-> FALSE]

\* one tick whose search("*") returns, with a callback that returns: the
\* results are parsed from the response, compared with lastResults, the
\* callback is called with the changes if there are any, and lastResults
\* is set. n counts the ticks: 0, 1, 2 for two or more.
EnginePoll ==
    /\ connected
    /\ adapter = "ipc" => everything
    /\ \E resp \in PollResponses(adapter) :
         LET now == 1 - poll.t
             results == ParseResponse(adapter, resp, PollClock(now))
             diffed == ShouldDiff(adapter, poll.last)
             changes == IF diffed
                        THEN DetectChanges(adapter, poll.last, results)
                        ELSE <<>>
             called == diffed /\ ShouldCall(changes)
         IN poll' = [n |-> Min(poll.n + 1, 2), t |-> now, resp |-> resp,
                     before |-> poll.resp, last |-> results,
                     diffed |-> diffed, changes |-> changes,
                     called |-> called]
    /\ UNCHANGED <<callerPc, unhandled, ev, query, client>>
    /\ UNCHANGED <<sharedVars, dropped>>
    /\ UNCHANGED <<adapterVars, monitorVars, diffVars, opVars, parseVars>>

(***************************************************************************)
(* What the searches of one adapter instance share: this.currentQuery     *)
(* (CLI and HTTP) and the query state behind this.everything (IPC), whose  *)
(* setters take a value, whose Everything_QueryW takes none and whose      *)
(* getters take an index only. A caller's search and the wildcard search   *)
(* of a monitor tick, on a connected adapter whose transport is healthy;   *)
(* the rest of the tick is the subject of the monitor's own actions.       *)
(***************************************************************************)
\* the queries of the caller: the wildcard, a word, and the empty string
Queries == {Str(<<"*">>), Str(<<"a">>), Str(<<>>)}

\* the options of the caller: none, a sort order, a window
SharedOptions ==
    {NoOptions,
     [NoOptions EXCEPT !.sortBy = "size", !.sortOrder = "desc"],
     [NoOptions EXCEPT !.maxResults = Num(1)]}

\* who searches: the caller, or a tick of monitorFileChanges
Searchers == {"caller", "tick"}

\* search("*") of poll, with options = {}
SearcherQueries(who) == IF who = "tick" THEN {Str(<<"*">>)} ELSE Queries

SearcherOptions(who) == IF who = "tick" THEN {NoOptions} ELSE SharedOptions

\* the setters of the library that IPCAdapter.search calls with a value of
\* the options
Setters ==
    {"Everything_SetMatchPath", "Everything_SetMatchCase",
     "Everything_SetMatchWholeWord", "Everything_SetRegex",
     "Everything_SetMax", "Everything_SetOffset", "Everything_SetSort"}

\* the argument of a setter as the library receives it: a bool as 0 or 1,
\* a uint32 as it is
SetterArg(v) == v.n

\* the library as loaded by connect(): no setter called yet (-1)
LibraryLoaded == [k \in Setters |-> -1]

\* the library before any search: the query state its setters write. Each
\* search calls Everything_QueryW right after its setters, so the result
\* list the library holds is always the one of this state.
NoLibrary == [search |-> Undefined, conf |-> LibraryLoaded]

RECURSIVE ApplySetters(_, _)
\* the state of the library after the setter calls of a request
ApplySetters(conf, request) ==
    IF request = <<>> THEN conf
    ELSE ApplySetters([conf EXCEPT
                          ![Head(request).key] = SetterArg(Head(request).val)],
                      Tail(request))

\* nothing searched, getSearchStatus() not called
NoHist == [callerQuery |-> Undefined, configured |-> {}, status |-> {}]

\* the result list a search reads when its wait is over: IPC, what the
\* getters of the library return then, the list of the last
\* Everything_QueryW; CLI and HTTP, the stdout of its own child process or
\* the body of its own request
ListRead(a, call, list) ==
    IF a = "ipc" THEN list
    ELSE [search |-> call.query, conf |-> call.conf]

\* CLI and HTTP: this.currentQuery = query, in every search
CurrentQuery(a, who, current, q) == IF a = "ipc" THEN current ELSE q

\* search(query, options) runs to its await: this.currentQuery is assigned
\* (CLI, HTTP); the setters and Everything_QueryW are called (IPC), and the
\* library holds the list of this query from then on
SearchBegin(who) ==
    /\ \A c \in calls : c.who = who => c.pc = "done"
    /\ connected
    /\ adapter = "ipc" => everything
    /\ \E q \in SearcherQueries(who), options \in SearcherOptions(who) :
         LET conf == IF adapter = "ipc"
                     THEN ApplySetters(lib.conf, IPCSearchRequest(options))
                     ELSE LibraryLoaded
         IN /\ currentQuery' = CurrentQuery(adapter, who, currentQuery, q)
            /\ lib' = IF adapter = "ipc" THEN [search |-> q, conf |-> conf]
                      ELSE lib
            /\ calls' = {c \in calls : c.who # who} \cup
                           {[who |-> who, pc |-> "wait", query |-> q,
                             conf |-> conf, served |-> NoLibrary]}
            /\ hist' = [hist EXCEPT
                          !.callerQuery = IF who = "caller" THEN q ELSE @,
                          !.configured =
                             IF adapter = "ipc"
                             THEN @ \cup {[options |-> options, conf |-> conf]}
                             ELSE @]
    /\ UNCHANGED <<callerPc, unhandled, ev, query, client, poll, dropped>>
    /\ UNCHANGED <<adapterVars, monitorVars, diffVars, opVars, parseVars>>

\* the await of a search is over (IPC: the 100 ms; CLI: the child process;
\* HTTP: the fetch) and its results are read, all in one step
SearchEnd(who) ==
    /\ \E c \in calls :
         /\ c.who = who
         /\ c.pc = "wait"
         /\ calls' = (calls \ {c}) \cup
                        {[c EXCEPT !.pc = "done",
                                   !.served = ListRead(adapter, c, lib)]}
    /\ UNCHANGED <<callerPc, unhandled, ev, query, client, poll, dropped>>
    /\ UNCHANGED <<currentQuery, lib, hist>>
    /\ UNCHANGED <<adapterVars, monitorVars, diffVars, opVars, parseVars>>

\* getSearchStatus() on a connected adapter: CLI and HTTP count the results
\* of this.currentQuery || "*", IPC those of the list the library holds
StatusCall ==
    /\ connected
    /\ adapter = "ipc" => everything
    /\ hist' = [hist EXCEPT
                  !.status =
                     {[counted |-> IF adapter = "ipc" THEN lib.search
                                   ELSE OrElse(currentQuery, Str(<<"*">>)),
                       owed |-> OrElse(hist.callerQuery, Str(<<"*">>))]}]
    /\ UNCHANGED <<callerPc, unhandled, ev, query, client, poll, dropped>>
    /\ UNCHANGED <<currentQuery, lib, calls>>
    /\ UNCHANGED <<adapterVars, monitorVars, diffVars, opVars, parseVars>>

(***************************************************************************)
(* Specifications.                                                         *)
(***************************************************************************)
\* the adapter as constructed
InitAdapter ==
    /\ adapter \in Adapters
    /\ connected = FALSE
    /\ connecting = FALSE
    /\ ffi = FALSE
    /\ everything = FALSE
    /\ callerPc = "idle"
    /\ unhandled = FALSE
    /\ ev = Event("init", 0)
    /\ sub = [s \in Subs |-> "none"]
    /\ lastResults = [s \in Subs |-> <<>>]
    /\ timer = [s \in Subs |-> FALSE]
    /\ tick = [s \in Subs |-> [ph \in Phases |-> 0]]
    /\ seeded = [s \in Subs |-> FALSE]
    /\ afterUnsub = [s \in Subs |-> 0]
    /\ op = NoOp

\* no detectChanges call
IdleDiff ==
    /\ prev = <<>>
    /\ cur = <<>>
    /\ out = <<>>
    /\ dpc = "idle"

\* no parser call
IdleParse ==
    /\ raw = Undefined
    /\ parsed = <<>>
    /\ ppc = "idle"

\* no search and no getSearchStatus yet, and no disconnect()
IdleShared ==
    /\ currentQuery = Undefined
    /\ lib = NoLibrary
    /\ calls = {}
    /\ hist = NoHist
    /\ dropped = FALSE

\* no search of the kind of Query, nothing constructed through the
\* factories, no tick on a response
IdleRest ==
    /\ query = NoQuery
    /\ client = NoClient
    /\ poll = NoPoll
    /\ IdleShared

Init ==
    /\ InitAdapter
    /\ IdleDiff
    /\ IdleParse
    /\ IdleRest

\* one step of a subscription in S: the caller subscribes or unsubscribes,
\* a timer fires, or a pending promise of a tick settles
MonitorStep(S) ==
    \/ \E s \in S : Subscribe(s)
    \/ \E s \in S : Unsubscribe(s)
    \/ \E s \in S : Poll(s)
    \/ \E s \in S : TickRejected(s)
    \/ \E s \in S : TickConnectDone(s)
    \/ \E s \in S : TickQueryFail(s)
    \/ \E s \in S : TickQueryOk(s)

\* an adapter with one monitorFileChanges subscription
Next ==
    \/ ConnectCall
    \/ ConnectDone
    \/ Disconnect
    \/ MonitorStep({1})

Spec == Init /\ [][Next]_vars

\* every pending promise settles and every pending timer fires; what the
\* caller does (connect, disconnect, subscribe, unsubscribe) is up to it
Fairness ==
    /\ WF_vars(ConnectDone)
    /\ \A s \in Subs :
         /\ WF_vars(Poll(s))
         /\ WF_vars(TickRejected(s))
         /\ WF_vars(TickConnectDone(s))
         /\ WF_vars(TickQueryFail(s) \/ TickQueryOk(s))

FairSpec == Spec /\ Fairness

\* an adapter with two monitorFileChanges subscriptions, whose caller
\* disconnects at will and leaves connecting to the ticks
NextPair ==
    \/ Disconnect
    \/ MonitorStep(Subs)

SpecPair == Init /\ [][NextPair]_vars

\* the adapter of Spec, with the history variable dropped kept: set when
\* disconnect() returns, cleared when the caller calls connect() or
\* monitorFileChanges
NextDropped ==
    \/ ConnectCallNoting(FALSE)
    \/ ConnectDone
    \/ DisconnectNoting(TRUE)
    \/ SubscribeNoting(1, FALSE)
    \/ Unsubscribe(1)
    \/ Poll(1)
    \/ TickRejected(1)
    \/ TickConnectDone(1)
    \/ TickQueryFail(1)
    \/ TickQueryOk(1)

SpecDropped == Init /\ [][NextDropped]_vars

InitDiff ==
    /\ InitAdapter
    /\ prev \in Snapshots
    /\ cur \in Snapshots
    /\ out = <<>>
    /\ dpc = "call"
    /\ IdleParse
    /\ IdleRest

NextDiff == Diff

SpecDiff == InitDiff /\ [][NextDiff]_vars

\* an adapter whose caller calls its operations one after the other, and
\* connects and disconnects at will
NextOps ==
    \/ \E kind \in OpKinds : OpCall(kind)
    \/ OpConnectDone
    \/ OpRequestDone
    \/ OpWaitDone
    \/ ConnectCall
    \/ ConnectDone
    \/ Disconnect

SpecOps == Init /\ [][NextOps]_vars

\* the parser of each adapter on each record of its transport
InitParse ==
    /\ InitAdapter
    /\ IdleDiff
    /\ raw \in RawRecords(adapter)
    /\ parsed = <<>>
    /\ ppc = "call"
    /\ IdleRest

NextParse == Parse

SpecParse == InitParse /\ [][NextParse]_vars

\* a connected adapter, as a successful connect() leaves it
InitConnected ==
    /\ adapter \in Adapters
    /\ connected = TRUE
    /\ connecting = FALSE
    /\ ffi = (adapter = "ipc")
    /\ everything = (adapter = "ipc")
    /\ callerPc = "idle"
    /\ unhandled = FALSE
    /\ ev = Event("init", 0)
    /\ sub = [s \in Subs |-> "none"]
    /\ lastResults = [s \in Subs |-> <<>>]
    /\ timer = [s \in Subs |-> FALSE]
    /\ tick = [s \in Subs |-> [ph \in Phases |-> 0]]
    /\ seeded = [s \in Subs |-> FALSE]
    /\ afterUnsub = [s \in Subs |-> 0]
    /\ op = NoOp
    /\ IdleDiff
    /\ IdleParse

\* a search with each combination of options on a connected adapter
InitQuery ==
    /\ InitConnected
    /\ query \in {[NoQuery EXCEPT !.options = o, !.pc = "call"] :
                     o \in SearchOptions}
    /\ client = NoClient
    /\ poll = NoPoll
    /\ IdleShared

NextQuery == Query

SpecQuery == InitQuery /\ [][NextQuery]_vars

\* no adapter yet, on each platform, in a browser or not, with an IPC
\* transport that can be loaded or not
InitClient ==
    /\ adapter = "none"
    /\ connected = FALSE
    /\ connecting = FALSE
    /\ ffi = FALSE
    /\ everything = FALSE
    /\ callerPc = "idle"
    /\ unhandled = FALSE
    /\ ev = Event("init", 0)
    /\ sub = [s \in Subs |-> "none"]
    /\ lastResults = [s \in Subs |-> <<>>]
    /\ timer = [s \in Subs |-> FALSE]
    /\ tick = [s \in Subs |-> [ph \in Phases |-> 0]]
    /\ seeded = [s \in Subs |-> FALSE]
    /\ afterUnsub = [s \in Subs |-> 0]
    /\ op = NoOp
    /\ IdleDiff
    /\ IdleParse
    /\ query = NoQuery
    /\ client \in {[NoClient EXCEPT !.platform = p, !.browser = b,
                                     !.ipcUsable = u] :
                      p \in Platforms, b \in BOOLEAN, u \in BOOLEAN}
    /\ poll = NoPoll
    /\ IdleShared

\* an adapter is constructed or a client created, and the operations of
\* the client are called
NextClient ==
    \/ \E kind \in Adapters : Construct(kind)
    \/ \E choice \in AdapterChoices : CreateClient(choice)
    \/ \E name \in FacadeOps : ClientCall(name)

SpecClient == InitClient /\ [][NextClient]_vars

\* a subscription of a connected adapter, tick after tick
InitPolls ==
    /\ InitConnected
    /\ IdleRest

NextPolls == EnginePoll

SpecPolls == InitPolls /\ [][NextPolls]_vars

\* a connected adapter whose caller searches and asks for the status while
\* a subscription's ticks search
InitShared ==
    /\ InitConnected
    /\ IdleRest

NextShared ==
    \/ \E who \in Searchers : SearchBegin(who)
    \/ \E who \in Searchers : SearchEnd(who)
    \/ StatusCall

SpecShared == InitShared /\ [][NextShared]_vars


(***************************************************************************)
(* Properties.                                                             *)
(***************************************************************************)
Unique(snapshot) ==
    \A i, j \in 1..Len(snapshot) :
        i # j => snapshot[i].fullPath # snapshot[j].fullPath

PathsOf(snapshot) == {snapshot[i].fullPath : i \in 1..Len(snapshot)}

TimeIn(snapshot, p) ==
    snapshot[CHOOSE i \in 1..Len(snapshot) : snapshot[i].fullPath = p].dateModified

\* the types of the records of a change list that carry path p, as a list
TypesFor(changes, p) ==
    LET hit(c) == c.path = p
        sel == SelectSeq(changes, hit)
    IN [i \in 1..Len(sel) |-> sel[i].type]

\* what the diff of two snapshots with unique paths owes path p
Expected(old, new, p) ==
    IF p \in PathsOf(old) /\ p \notin PathsOf(new) THEN <<"deleted">>
    ELSE IF p \in PathsOf(new) /\ p \notin PathsOf(old) THEN <<"added">>
    ELSE IF /\ p \in PathsOf(old)
            /\ p \in PathsOf(new)
            /\ TimeIn(old, p) # TimeIn(new, p) THEN <<"modified">>
    ELSE <<>>

\* C1: for snapshots whose fullPaths are unique, detectChanges returns one
\* 'deleted' record per path only in previous, one 'added' record per path
\* only in current, one 'modified' record per path in both whose
\* dateModified differs, and no other record.
C1_DetectChangesExact ==
    (dpc = "done" /\ Unique(prev) /\ Unique(cur)) =>
        \A p \in Paths : TypesFor(out, p) = Expected(prev, cur, p)

\* a diff with a deletion, a modification and an addition at once
C1_Witness ==
    /\ dpc = "done"
    /\ Unique(prev)
    /\ Unique(cur)
    /\ \E a, b, c \in Paths :
         /\ TypesFor(out, a) = <<"deleted">>
         /\ TypesFor(out, b) = <<"modified">>
         /\ TypesFor(out, c) = <<"added">>

\* C2: the first completed search of a subscription only seeds the
\* baseline; the callback is not invoked for that first snapshot.
C2_FirstSearchOnlySeeds ==
    (ev.type = "tick_ok" /\ ev.first) => ~ev.called

\* C3: the search-and-diff cycles of one subscription never overlap: at
\* most one tick of a subscription is in flight.
C3_NoOverlap == \A s \in Subs : InFlight(s) <= 1

\* C4: after unsubscribe the callback of the subscription is invoked at
\* most once more.
C4_AtMostOneCallbackAfterUnsubscribe == \A s \in Subs : afterUnsub[s] <= 1

\* the subscription has no pending timer and no tick in flight
Quiet(s) == ~timer[s] /\ InFlight(s) = 0

\* C5: no search of a subscription starts after its unsubscribe; the
\* unsubscribe leaves the ticks in flight alone and they end only by
\* running to completion; and after unsubscribe the subscription
\* eventually has no timer and no tick left, for good.
C5_UnsubscribeStopsFutureTicksOnly ==
    /\ [][\A s \in Subs :
            /\ InFlight(s)' > InFlight(s) => sub[s] # "off"
            /\ (sub[s] = "on" /\ sub'[s] = "off") => tick'[s] = tick[s]
            /\ (sub[s] = "off" /\ InFlight(s)' < InFlight(s)) =>
                 (ev'.type \in {"tick_ok", "tick_err"} /\ ev'.sub = s)]_vars
    /\ \A s \in Subs : (sub[s] = "off") ~> [](sub[s] = "off" /\ Quiet(s))

\* unsubscribed, the tick that was in flight has delivered its changes and
\* nothing is left pending
C5_Witness ==
    /\ sub[1] = "off"
    /\ afterUnsub[1] = 1
    /\ Quiet(1)

\* C6: a failed tick is absorbed: nothing escapes the tick, the callback
\* is not invoked, the subscription keeps its timer, and unless
\* unsubscribe is invoked another tick is eventually started.
C6_TickErrorsAbsorbed ==
    /\ [](~unhandled)
    /\ [](ev.type = "tick_err" =>
            /\ ~ev.called
            /\ sub[ev.sub] = "on" => timer[ev.sub])
    /\ \A s \in Subs :
         (ev.type = "tick_err" /\ ev.sub = s /\ sub[s] = "on")
            ~> ((ev.started /\ ev.sub = s) \/ sub[s] # "on")

\* a tick whose implicit connect failed, in a subscription already seeded
C6_Witness ==
    /\ ev.type = "tick_err"
    /\ ev.probe = "fail"
    /\ sub[ev.sub] = "on"
    /\ seeded[ev.sub]
    /\ timer[ev.sub]

\* C7: the callback is never invoked with an empty change list.
C7_CallbackNeverEmpty == ev.called => Len(ev.changes) > 0

C7_Witness ==
    /\ ev.type = "tick_ok"
    /\ ev.called
    /\ ~ev.first
    /\ Len(ev.changes) > 0

\* C8: subscriptions on one adapter are independent: a step of one
\* subscription (a tick, an unsubscribe) leaves the baseline, the running
\* state, the timer and the ticks of every other subscription unchanged,
\* and the changes a callback receives are the diff of its own
\* subscription's previous and new snapshot.
C8_IndependentSubscriptions ==
    [][/\ \A s \in Subs :
            ev'.sub # s =>
                /\ lastResults'[s] = lastResults[s]
                /\ sub'[s] = sub[s]
                /\ timer'[s] = timer[s]
                /\ tick'[s] = tick[s]
       /\ (ev'.type = "tick_ok" /\ ev'.called /\ ~ev'.threw) =>
            ev'.changes = DetectChanges(adapter, lastResults[ev'.sub],
                                        lastResults'[ev'.sub])]_vars

\* two running subscriptions with different baselines, one just called back
C8_Witness ==
    /\ sub[1] = "on"
    /\ sub[2] = "on"
    /\ Len(lastResults[1]) > 0
    /\ Len(lastResults[2]) > 0
    /\ lastResults[1] # lastResults[2]
    /\ ev.type = "tick_ok"
    /\ ev.called

C10_ConnectIdempotent ==
    [][(connected /\ ev'.type \in {"connect_return", "connect_busy",
                                   "connect_probe"}) =>
          /\ ev'.type = "connect_return"
          /\ ev'.err = NoErr
          /\ callerPc' = "idle"
          /\ UNCHANGED adapterVars]_vars

\* connect() has returned at once on a connected adapter
C10_Witness ==
    /\ ev.type = "connect_return"
    /\ connected

\* C11: disconnect() can be called in every state and never fails; after it
\* isConnected() is false and the IPC adapter's library handle is null; a
\* second disconnect() in a row fails neither and changes nothing.
C11_DisconnectTotalIdempotent ==
    /\ [](ENABLED Disconnect)
    /\ [][ev'.type = "disconnect" =>
            /\ ev'.err = NoErr
            /\ ~connected'
            /\ adapter = "ipc" => ~everything'
            /\ ev.type = "disconnect" =>
                  UNCHANGED <<adapterVars, monitorVars, callerPc, unhandled>>
         ]_vars

\* the IPC adapter was disconnected while a tick's query was in flight (so
\* with the library handle held) and the handle is gone
C11_Witness ==
    /\ ev.type = "disconnect"
    /\ adapter = "ipc"
    /\ tick[1]["query"] > 0
    /\ ~connected
    /\ ~everything

\* a step in which the caller's operation returns or throws
OpReturns == op' # op /\ op'.pc = "done"

\* C12: an operation called while unconnected attempts connect() first, in
\* every adapter: when it returns successfully the adapter is connected, and
\* when the connect probe fails the operation fails.
C12_OperationsConnectFirst ==
    [][OpReturns /\ op'.unconnected =>
          /\ op'.probe # "none" \/ op'.failedAt = "connect"
          /\ op'.status = "ok" => connected'
          /\ op'.probe = "fail" => op'.status = "error"
      ]_vars

\* C12, amended: HTTPAdapter.getVersion called while unconnected returns
\* its sentinel without connecting; every other operation called while
\* unconnected attempts connect() first: when it returns successfully its
\* connect has succeeded and the adapter is connected unless disconnect()
\* was called while the operation was in flight, and when the connect probe
\* fails the operation fails.
C12_OperationsConnectFirstButHTTPVersion ==
    [][OpReturns /\ op'.unconnected =>
          IF adapter = "http" /\ op'.kind = "getVersion"
          THEN /\ op'.status = "ok"
               /\ op'.probe = "none"
               /\ UNCHANGED adapterVars
          ELSE /\ op'.probe # "none" \/ op'.failedAt = "connect"
               /\ op'.status = "ok" =>
                     op'.probe = "ok" /\ (connected' \/ op'.disc)
               /\ op'.probe = "fail" => op'.status = "error"
      ]_vars

\* a search called while unconnected has connected the IPC adapter and
\* returned
C12_Witness ==
    /\ adapter = "ipc"
    /\ op.pc = "done"
    /\ op.kind = "search"
    /\ op.unconnected
    /\ op.probe = "ok"
    /\ op.status = "ok"
    /\ ~op.disc
    /\ connected

\* the search of the caller has thrown
SearchFailed == op.pc = "done" /\ op.kind = "search" /\ op.status = "error"

\* the search of the caller has returned a list
SearchReturned == op.pc = "done" /\ op.kind = "search" /\ op.status = "ok"

\* the records of a response that the parser of adapter a is to turn into
\* results: the lines of es.exe that are not blank, the items, the window
RecordsOf(a, resp) ==
    IF a = "cli"
    THEN Cardinality({i \in 1..Len(resp.records) :
                         Trim(resp.records[i]) # <<>>})
    ELSE Len(resp.records)

\* C13: a search that returns has read a well-formed response and returns
\* a result for every record of it: a malformed response is an error, never
\* an empty or shortened list.
C13_NoPartialList ==
    SearchReturned =>
        /\ op.resp.wellFormed
        /\ Len(op.value) >= RecordsOf(adapter, op.resp)

Parsed == ppc = "done" /\ Len(parsed) = 1

\* C15: size and attributes are numbers, never NaN or undefined: a missing
\* size or attributes field is 0, a size of "" is 0, and a result of the
\* CLI adapter has size 0 and attributes 0.
C15_NumericFieldsAreNumbers ==
    Parsed =>
        /\ parsed[1].size.t = "number"
        /\ parsed[1].attributes.t = "number"
        /\ adapter = "http" /\ raw.size \in {Undefined, Str(<<>>)} =>
              parsed[1].size = Num(0)
        /\ adapter = "http" /\ raw.attributes = Undefined =>
              parsed[1].attributes = Num(0)
        /\ adapter = "cli" =>
              parsed[1].size = Num(0) /\ parsed[1].attributes = Num(0)

\* the text of a string holds the rendering of a missing value
RendersMissing(text) ==
    \E i \in 1..Len(text) : text[i] \in {"undefined", "null"}

\* C16: name, path and fullPath are strings, never null or undefined: a
\* missing name or path is "", and fullPath never holds the text of a
\* missing value.
C16_StringFieldsAreStrings ==
    Parsed =>
        /\ parsed[1].name.t = "string"
        /\ parsed[1].path.t = "string"
        /\ parsed[1].fullPath.t = "string"
        /\ ~RendersMissing(parsed[1].fullPath.s)

\* C17: fullPath is path + separator + name when path is not empty, name
\* when path is empty, and not empty when name is not empty; for the CLI
\* adapter on every line, the ones that begin or end with the separator
\* included. (Stated of the results whose three fields are strings that
\* render no missing value, the ones C16 does not already fail.)
C17_FullPathIsPathSepName ==
    Parsed /\ C16_StringFieldsAreStrings =>
        /\ parsed[1].path.s # <<>> =>
              parsed[1].fullPath.s
                  = parsed[1].path.s \o <<Sep>> \o parsed[1].name.s
        /\ parsed[1].path.s = <<>> => parsed[1].fullPath = parsed[1].name
        /\ parsed[1].name.s # <<>> => parsed[1].fullPath.s # <<>>

\* the raw timestamp of the record, when it has one
RawTime(a, record) ==
    CASE a = "ipc" -> record.dateModified
      [] a = "http" -> record.date_modified
      [] OTHER -> Undefined

\* (t - 116444736000000000) / 10000 milliseconds, for t from the epoch on
UnixMs(t) == DateMs(t.h - 116444736, t.n \div 10000)

\* C18: a raw timestamp t of the IPC or the HTTP transport becomes the
\* instant (t - 116444736000000000) / 10000 of Unix milliseconds, and the
\* two adapters give the same instant for the same t.
C18_TimestampsAreUnixMs ==
    Parsed /\ RawTime(adapter, raw).t = "ticks"
           /\ RawTime(adapter, raw).h >= 116444736 =>
        /\ parsed[1].dateModified = UnixMs(RawTime(adapter, raw))
        /\ \A t \in Clock :
              FileTimeToDate(RawTime(adapter, raw))
                  = HTTPParseDate(RawTime(adapter, raw), t)

\* C19: isReadOnly, isHidden and isSystem are the bits 0x1, 0x2 and 0x4 of
\* attributes; with attributes 0 the three are false.
C19_FlagsAgreeWithAttributes ==
    Parsed =>
        /\ parsed[1].isReadOnly <=> HasBit(parsed[1].attributes.n, 1)
        /\ parsed[1].isHidden <=> HasBit(parsed[1].attributes.n, 2)
        /\ parsed[1].isSystem <=> HasBit(parsed[1].attributes.n, 4)
        /\ parsed[1].attributes = Num(0) =>
              /\ ~parsed[1].isReadOnly
              /\ ~parsed[1].isHidden
              /\ ~parsed[1].isSystem

\* the HTTP parser has returned a hidden file that is neither read-only nor
\* a system file
C19_Witness ==
    /\ Parsed
    /\ adapter = "http"
    /\ raw.attributes = Num(2)
    /\ parsed[1].isHidden
    /\ ~parsed[1].isSystem
    /\ ~parsed[1].isReadOnly

\* C20: no two results of the list a search returns have the same fullPath.
C20_FullPathsUnique ==
    SearchReturned =>
        \A i, j \in 1..Len(op.value) :
            i # j => op.value[i].fullPath # op.value[j].fullPath

\* C21: a search called with a numeric maxResults = n returns at most n
\* results, in every adapter; the IPC adapter reads back as many results
\* as the requested window holds, not as many as the engine has matches.
C21_AtMostMaxResults ==
    SearchReturned /\ op.opts.maxResults.t = "number" =>
        /\ Len(op.value) <= op.opts.maxResults.n
        /\ adapter = "ipc" => Len(op.value) = Len(op.resp.records)


\* C22: an option that an adapter cannot express is silently ignored: for
\* every combination of SearchOptions values a search on a connected
\* adapter with a healthy transport succeeds.
C22_OptionsNeverFail ==
    query.pc = "done" => query.status = "ok"

\* a search of the CLI adapter has succeeded with options it cannot
\* express: sortBy run-count, matchPath and an include toggle
C22_Witness ==
    /\ query.pc = "done"
    /\ query.status = "ok"
    /\ adapter = "cli"
    /\ query.options.sortBy = "run-count"
    /\ query.options.sortOrder = "desc"
    /\ query.options.matchPath
    /\ query.options.includeHidden

\* getSearchStatus of the caller has returned a status
StatusReturned ==
    op.pc = "done" /\ op.kind = "getSearchStatus" /\ op.status = "ok"

\* C23: a status getSearchStatus returns has percentComplete 100 or 50, 100
\* exactly when indexingComplete is true; the CLI and HTTP adapters report
\* indexingComplete true with percentComplete 100; totalResults is a
\* number.
C23_StatusSentinels ==
    StatusReturned =>
        /\ op.st.percentComplete \in {100, 50}
        /\ op.st.percentComplete = 100 <=> op.st.indexingComplete
        /\ adapter \in {"cli", "http"} =>
              op.st.indexingComplete /\ op.st.percentComplete = 100
        /\ op.st.totalResults.t = "number"

\* C24: getVersion of the HTTP adapter returns the fixed sentinel string
\* within the call, in every connection state and without a request to the
\* server: it is never pending and never fails.
C24_HTTPVersionSentinel ==
    adapter = "http" /\ op.kind = "getVersion" =>
        /\ op.pc = "done"
        /\ op.status = "ok"
        /\ op.text = "Unknown Version"

\* getVersion of the HTTP adapter has returned while the adapter is not
\* connected and a connect() of the caller is pending
C24_Witness ==
    /\ adapter = "http"
    /\ op.kind = "getVersion"
    /\ op.pc = "done"
    /\ op.text = "Unknown Version"
    /\ ~connected
    /\ connecting

\* C25: the client facade is pure delegation: it holds the adapter it was
\* created with for its whole lifetime, and each call of one of its eight
\* operations makes exactly one call of the adapter, of the operation of
\* the same name with the same arguments, and returns or throws what that
\* call returns or throws.
C25_FacadePureDelegation ==
    [][client.facade /\ client' # client =>
          /\ client'.facade
          /\ client'.held = client.held
          /\ adapter' = adapter
          /\ adapter = client.held
          /\ Len(client'.forwarded) = 1
          /\ client'.forwarded[1] = client'.call
          /\ client'.returned = client'.outcome]_vars

\* search of the facade has been called with a query and options, the
\* adapter's search has thrown, and the facade has thrown the same
C25_Witness ==
    /\ client.pc = "done"
    /\ client.call = Call("search", <<Str(<<"a">>), Object(1)>>)
    /\ client.forwarded = <<client.call>>
    /\ client.outcome.threw
    /\ client.returned = client.outcome

\* the number of records of a type in a list of changes
CountOf(changes, type) ==
    Cardinality({i \in 1..Len(changes) : changes[i].type = type})

\* C26: the detectChanges of the IPC, CLI and HTTP adapters are
\* equivalent: for every pair of snapshots, with repeated fullPaths or
\* without, they return the same change records in the same order.
C26_DetectChangesEquivalent ==
    dpc = "done" =>
        /\ out = DetectChangesIPC(prev, cur)
        /\ out = DetectChangesCLI(prev, cur)
        /\ out = DetectChangesHTTP(prev, cur)

\* detectChanges of the HTTP adapter has returned changes for a previous
\* snapshot in which a fullPath is repeated
C26_Witness ==
    /\ dpc = "done"
    /\ adapter = "http"
    /\ ~Unique(prev)
    /\ Len(cur) > 0
    /\ Len(out) > 1

C28_SelfDiffEmpty ==
    dpc = "done" /\ prev = cur => out = <<>>

\* detectChanges of the CLI adapter has returned for a snapshot of two
\* files diffed against itself
C28_Witness ==
    /\ dpc = "done"
    /\ adapter = "cli"
    /\ prev = cur
    /\ Len(prev) = 2
    /\ Unique(prev)
    /\ out = <<>>

\* C29: the IPC adapter is platform-gated and fails fast: on a platform
\* other than win32 its construction fails with an EverythingIPCError
\* before any connect or library load, and no IPC adapter exists there.
C29_IPCPlatformGated ==
    client.platform # "win32" =>
        /\ adapter # "ipc"
        /\ (\E i \in 1..Len(client.tried) : client.tried[i] = "ipc") =>
              /\ client.made = "error"
              /\ client.err.kind = "EverythingIPCError"
              /\ adapter = "none"
              /\ ~client.facade
              /\ ~connected
              /\ ~ffi
              /\ ~everything

\* the construction of an IPC adapter has failed on linux
C29_Witness ==
    /\ client.platform = "linux"
    /\ client.tried = <<"ipc">>
    /\ client.made = "error"
    /\ client.err.kind = "EverythingIPCError"

\* C30: when the engine reports the same files with the same modification
\* times in two consecutive polls of a subscription, the second poll emits
\* no change record and does not invoke the callback, in every adapter.
C30_SamePollsEmitNothing ==
    poll.n = 2 /\ poll.resp = poll.before =>
        poll.changes = <<>> /\ ~poll.called

\* C31: two searches in flight at the same time on one adapter each return
\* the results of their own query and options: the list a search has read
\* is the list of the query it set, under the configuration it set.
C31_ConcurrentSearchesOwnResults ==
    \A c \in calls :
        c.pc = "done" =>
            /\ c.served.search = c.query
            /\ c.served.conf = c.conf

\* C36: in the CLI and HTTP adapters getSearchStatus counts the results of
\* the query of the caller's most recent search, or of '*' when the caller
\* has not searched; the search of a monitor tick does not change that.
C36_StatusCountsCallerQuery ==
    adapter \in {"cli", "http"} =>
        \A st \in hist.status : st.counted = st.owed

\* C37: in the IPC adapter the configuration of the engine at
\* Everything_QueryW (match flags, max, offset and sort) depends on the
\* options of that search only: two searches with the same options
\* configure it identically, whatever searches ran before.
C37_ConfigurationFromOptionsOnly ==
    \A x, y \in hist.configured : x.options = y.options => x.conf = y.conf

\* C32: once disconnect() has returned, isConnected() stays false until the
\* caller next calls connect() or another operation of the adapter: no
\* connect that was in flight and no tick of a subscription connects it.
C32_DisconnectedUntilCallerActs == dropped => ~connected

\* C33: of two operations invoked concurrently on an unconnected adapter
\* whose transport is reachable, none fails because the implicit connect of
\* the other is in progress: no search of a tick is rejected with
\* 'Connection already in progress'.
C33_ConcurrentConnectsBothSucceed ==
    ~(ev.type = "tick_err" /\ ev.err = BusyError)

\* C34: once a first search of a subscription has succeeded, every
\* successful tick that moves the stored snapshot to one that differs from
\* it by an added, deleted or modified path calls the callback with that
\* diff, also when the stored snapshot is empty.
C34_EveryDifferenceDelivered ==
    [][(/\ ev'.type = "tick_ok"
        /\ seeded[ev'.sub]
        /\ DetectChanges(adapter, lastResults[ev'.sub],
                         lastResults'[ev'.sub]) # <<>>)
       => /\ ev'.called
          /\ ev'.changes = DetectChanges(adapter, lastResults[ev'.sub],
                                         lastResults'[ev'.sub])]_vars

\* C35: after a tick whose search succeeded the stored previous snapshot is
\* that search's result, also when the callback threw: it has moved by
\* exactly the changes the tick has computed from that result. After a tick
\* whose search failed it is unchanged.
C35_BaselineAdvancesOnSuccess ==
    [][/\ (ev'.type = "tick_ok" /\ ev'.diffed) =>
            DetectChanges(adapter, lastResults[ev'.sub],
                          lastResults'[ev'.sub]) = ev'.changes
       /\ ev'.type = "tick_err" => lastResults' = lastResults]_vars

\* C38: on Windows with automatic adapter selection, when the IPC
\* transport is unusable (its native library or the FFI modules cannot be
\* loaded), the client that createClient returns is served by the CLI
\* adapter.
C38_FallsBackToCLI ==
    (/\ client.facade
     /\ client.choice \in {"undefined", "auto"}
     /\ client.platform = "win32"
     /\ ~client.browser
     /\ ~client.ipcUsable) => client.held = "cli"

============================================================================
